---- MODULE Spec2Model ----
(***************************************************************************)
(* shopify-token, modelled from the two promise-based revisions of the     *)
(* module kept in the repository: src/index.js (fulfils with               *)
(* body.access_token, compares the hexadecimal digest with ===) and        *)
(* src/unnamed/part_005 lines 1-238 (fulfils with the parsed body,         *)
(* compares the digest bytes with timingSafeEqual, has the agent option).  *)
(*                                                                         *)
(* Spec follows one call of getAccessToken from the moment it runs its     *)
(* promise executor to the last event the transport can deliver.  The      *)
(* transport (Node's https request, its response stream and the timer      *)
(* queue) is the environment: it may deliver 'response', 'data', 'end',    *)
(* 'error' and the timer callback in any order the listeners are           *)
(* registered for, also after request.abort().  ConcSpec follows two such  *)
(* calls on one instance with their events interleaved.  HmacSpec follows  *)
(* verifyHmac on the callback queries an application receives: signed      *)
(* queries and the queries made from them by changing one thing.           *)
(* CanonSpec builds the signing strings of two mappings of parameters.     *)
(* CallbackSpec follows one call of the callback-style getAccessToken of   *)
(* src/unnamed/part_004, and AppSpec the express application of the        *)
(* example directory (src/unnamed/part_007) on one session.                *)
(***************************************************************************)
EXTENDS Integers, Sequences, FiniteSets, TLC

\* ------------------------------------------------------------------ bounds

\* 'data' events delivered for one response
MaxChunks == 3

\* changes made to a callback query, one after the other
MaxEdits == 1

\* parameters of each of the two mappings whose signing strings are compared
MaxParams == 2

\* callback requests the example application receives on one session
MaxCallbacks == 2

\* ------------------------------------------------------------- option type

None == <<>>

Some(x) == <<x>>

\* --------------------------------------------------------------- revisions

Revisions == {"index.js", "part_005"}

\* ---------------------------------------------------- response body texts
\* A body is a sequence of lexemes; a chunk is a piece of text the response
\* stream hands to the 'data' listener.  No two lexemes join into another
\* lexeme, so parsing the lexeme sequence is parsing the concatenated text.

LBrace == "{"

RBrace == "}"

Comma == ","

NullLit == "null"

Junk == "<"

KeyAccessToken == "\"access_token\":"

KeyScope == "\"scope\":"

StrT == "\"T\""

StrReadContent == "\"read_content\""

KeyLexemes == {KeyAccessToken, KeyScope}

StringLexemes == {StrT, StrReadContent}

Chunks ==
  { <<LBrace, KeyAccessToken, StrT>>,
    <<Comma, KeyScope, StrReadContent>>,
    <<RBrace>>,
    <<NullLit>>,
    <<Junk>> }

\* the property name a key lexeme denotes
KeyName(k) == IF k = KeyAccessToken THEN "access_token" ELSE "scope"

\* ------------------------------------------------------------- JS values
\* t: the type; s: the text of a string; m: the members of an object, a set
\* of <<name, value>> pairs with one pair per name.

JSUndefined == [t |-> "undefined", s |-> "", m |-> {}]

JSNull == [t |-> "null", s |-> "", m |-> {}]

JSString(lex) == [t |-> "string", s |-> lex, m |-> {}]

JSObject(members) == [t |-> "object", s |-> "", m |-> members]

\* obj[name] = value, a later member replacing an earlier one of that name
SetMember(members, name, value) ==
  {p \in members : p[1] # name} \cup {<<name, value>>}

\* v.name for a value that is neither null nor undefined
GetProperty(v, name) ==
  IF \E p \in v.m : p[1] = name
    THEN (CHOOSE p \in v.m : p[1] = name)[2]
    ELSE JSUndefined

\* ------------------------------------------------------------ JSON.parse

ParseFail == [ok |-> FALSE, val |-> JSUndefined, rest |-> <<>>]

ParseOk(v, rest) == [ok |-> TRUE, val |-> v, rest |-> rest]

RECURSIVE ParseValue(_)
RECURSIVE ParseMembers(_, _)

\* the members of an object after its opening brace: key value (, key value)* }
ParseMembers(s, members) ==
  IF Len(s) < 2 \/ Head(s) \notin KeyLexemes
    THEN ParseFail
    ELSE LET v == ParseValue(Tail(s))
         IN IF ~v.ok \/ v.rest = <<>>
              THEN ParseFail
              ELSE LET ms == SetMember(members, KeyName(Head(s)), v.val)
                       sep == Head(v.rest)
                   IN IF sep = RBrace
                        THEN ParseOk(JSObject(ms), Tail(v.rest))
                        ELSE IF sep = Comma
                               THEN ParseMembers(Tail(v.rest), ms)
                               ELSE ParseFail

ParseValue(s) ==
  IF s = <<>>
    THEN ParseFail
    ELSE LET h == Head(s)
             r == Tail(s)
         IN IF h = NullLit
              THEN ParseOk(JSNull, r)
              ELSE IF h \in StringLexemes
                     THEN ParseOk(JSString(h), r)
                     ELSE IF h = LBrace
                            THEN IF r # <<>> /\ Head(r) = RBrace
                                   THEN ParseOk(JSObject({}), Tail(r))
                                   ELSE ParseMembers(r, {})
                            ELSE ParseFail

\* JSON.parse(text): ok = FALSE where it throws a SyntaxError
JSONParse(text) ==
  LET v == ParseValue(text)
  IN IF v.ok /\ v.rest = <<>> THEN [ok |-> TRUE, val |-> v.val]
                              ELSE [ok |-> FALSE, val |-> JSUndefined]

\* ------------------------------------------------------------------ errors

MkError(msg, status, text) ==
  [message |-> msg, statusCode |-> status, responseBody |-> text]

TimeoutError == MkError("Request timed out", None, None)

StatusError(status, text) ==
  MkError("Failed to get Shopify access token", Some(status), Some(text))

\* mutant of BodyParseError: the error is rejected without its responseBody
BodyParseErrorNoBody(status, text) ==
  MkError("Failed to parse the response body", Some(status), None)

BodyParseError(status, text) ==
  MkError("Failed to parse the response body", Some(status), Some(text))

\* the errors the transport emits on the request
TransportErrors ==
  { MkError("socket hang up", None, None),
    MkError("getaddrinfo ENOTFOUND", None, None) }

\* ------------------------------------------------------------ settlements
\* What a handler passes to the promise: resolve(value) or reject(reason).

Resolve(v) == [state |-> "fulfilled", value |-> Some(v), reason |-> None]

Reject(e) == [state |-> "rejected", value |-> None, reason |-> Some(e)]

Pending == [state |-> "pending", value |-> None, reason |-> None]

\* the promise's state after resolve or reject is called with settlement s:
\* a settled promise ignores every later call
Settle(p, s) == IF p.state = "pending" THEN s ELSE p

\* ------------------------------------------------------------ the instance

\* the values of an option, of an argument and of a query: strings, numbers
\* and arrays of those; a missing key reads as undefined
QString(str) == [t |-> "string", s |-> str, n |-> 0, a |-> <<>>]

QNumber(num) == [t |-> "number", s |-> "", n |-> num, a |-> <<>>]

QArray(elems) == [t |-> "array", s |-> "", n |-> 0, a |-> elems]

QUndefined == [t |-> "undefined", s |-> "", n |-> 0, a |-> <<>>]

\* an object without a prototype, as Object.create(null) makes
QBare == [t |-> "bare", s |-> "", n |-> 0, a |-> <<>>]

DefaultTimeout == 60000

\* options.agent as handed to the constructor: none, or an https.Agent
Agents == {None, Some("keepAliveAgent")}

\* The argument of the constructor: given tells whether an object was
\* passed, and each field is None when the object has no such key.

\* new ShopifyToken()
NoOptions ==
  [given |-> FALSE, sharedSecret |-> None, redirectUri |-> None,
   apiKey |-> None, scopes |-> None, timeout |-> None, accessMode |-> None,
   agent |-> None]

\* the options of the instance of the test suite
TestOptions ==
  [given |-> TRUE, sharedSecret |-> Some("foo"), redirectUri |-> Some("bar"),
   apiKey |-> Some("baz"), scopes |-> None, timeout |-> None,
   accessMode |-> None, agent |-> None]

\* the optional options of the tests
ScopesOptions ==
  {None, Some(QString("read_content,write_content")),
   Some(QArray(<<QString("read_products"), QString("read_themes")>>))}

TimeoutOptions == {None, Some(300)}

AccessModeOptions == {None, Some(QString("per-user"))}

\* the optional options, with the required ones of the test suite
OptionalOptions ==
  {[TestOptions EXCEPT !.scopes = s, !.accessMode = m] :
     s \in ScopesOptions, m \in AccessModeOptions}
    \cup {[TestOptions EXCEPT !.timeout = t] : t \in TimeoutOptions}

\* the options the instances getAccessToken is called on were made with
Options ==
  {[TestOptions EXCEPT !.agent = a] : a \in Agents}
    \cup {[TestOptions EXCEPT !.timeout = t] : t \in TimeoutOptions}
    \cup {[TestOptions EXCEPT !.scopes = Some(
                QString("read_content,write_content")),
                         !.accessMode = Some(QString("per-user"))]}

\* the constructor's guard: !options || !options.sharedSecret || ...
IsFalsyOption(field) == field = None \/ Len(field[1]) = 0

MissingOptions(opts) ==
  \/ ~opts.given
  \/ IsFalsyOption(opts.sharedSecret)
  \/ IsFalsyOption(opts.redirectUri)
  \/ IsFalsyOption(opts.apiKey)

\* 'name' in options ? options.name : fallback
OptionOr(field, fallback) == IF field = None THEN fallback ELSE field[1]

\* the fields the constructor sets once the guard has passed; src/index.js
\* and the callback-style revision (part_004) read neither options.accessMode
\* nor options.agent
Instance(r, opts) ==
  IF r # "part_005"
    THEN [scopes |-> OptionOr(opts.scopes, QString("read_content")),
          timeout |-> OptionOr(opts.timeout, DefaultTimeout),
          sharedSecret |-> opts.sharedSecret[1],
          redirectUri |-> opts.redirectUri[1], apiKey |-> opts.apiKey[1]]
    ELSE [accessMode |-> OptionOr(opts.accessMode, QString("")),
          scopes |-> OptionOr(opts.scopes, QString("read_content")),
          timeout |-> OptionOr(opts.timeout, DefaultTimeout),
          sharedSecret |-> opts.sharedSecret[1],
          redirectUri |-> opts.redirectUri[1], apiKey |-> opts.apiKey[1],
          agent |-> opts.agent]

\* the message of the error the constructor throws
MissingOptionsMessage == "Missing or invalid options"

\* a constructor that takes an empty string for a required option
ConstructorEmptyAccepted(r, opts) ==
  IF \/ ~opts.given
     \/ opts.sharedSecret = None
     \/ opts.redirectUri = None
     \/ opts.apiKey = None
    THEN [threw |-> Some("Missing or invalid options"), instance |-> None]
    ELSE [threw |-> None, instance |-> Some(Instance(r, opts))]

\* new ShopifyToken(options): the error thrown, or the instance
Constructor(r, opts) ==
  IF MissingOptions(opts)
    THEN [threw |-> Some(MissingOptionsMessage), instance |-> None]
    ELSE [threw |-> None, instance |-> Some(Instance(r, opts))]

\* ------------------------------------------------------------- the request
\* A text of the request is a sequence of pieces: a piece is one character
\* that matters to JSON or to UTF-8, or a run of ASCII characters that need
\* no escaping.

DQuote == "\""

Backslash == "\\"

Colon == ":"

\* a character outside ASCII (U+00E9): one UTF-16 code unit, two UTF-8 bytes
EAcute == "U+00E9"

\* a string without special characters as a text
Text(str) == <<str>>

Shops == {"qux.myshopify.com"}

Codes ==
  { Text("4d73"), Text("123456"), <<"caf", EAcute>>, <<"a", DQuote, "b">> }

\* the codes of the two concurrent calls
ConcCodes == {Text("4d73"), Text("123456")}

\* the bytes of a piece encoded as UTF-8
Utf8Bytes(piece) == IF piece = EAcute THEN 2 ELSE Len(piece)

RECURSIVE ByteLength(_)
\* Buffer.byteLength(data): the length of the text encoded as UTF-8
ByteLength(text) ==
  IF text = <<>> THEN 0
                 ELSE Utf8Bytes(Head(text)) + ByteLength(Tail(text))

RECURSIVE Escape(_)
\* the characters of a string as JSON.stringify writes them inside quotes
Escape(text) ==
  IF text = <<>> THEN <<>>
  ELSE (IF Head(text) \in {DQuote, Backslash}
          THEN <<Backslash, Head(text)>>
          ELSE <<Head(text)>>) \o Escape(Tail(text))

\* JSON.stringify of a string
Quote(text) == <<DQuote>> \o Escape(text) \o <<DQuote>>

\* JSON.stringify({client_secret, client_id, code})
StringifyBody(secret, key, code) ==
  <<LBrace>>
    \o Quote(Text("client_secret")) \o <<Colon>> \o Quote(secret) \o <<Comma>>
    \o Quote(Text("client_id")) \o <<Colon>> \o Quote(key) \o <<Comma>>
    \o Quote(Text("code")) \o <<Colon>> \o Quote(code)
    \o <<RBrace>>

\* the options handed to https.request and the body written by request.end;
\* without an agent option the request goes through the default agent
MakeRequest(r, inst, shop, code) ==
  LET data == StringifyBody(Text(inst.sharedSecret), Text(inst.apiKey), code)
      base == [contentLength |-> ByteLength(data),
               contentType |-> "application/json",
               accept |-> "application/json",
               path |-> "/admin/oauth/access_token",
               hostname |-> shop,
               method |-> "POST",
               agent |-> None,
               data |-> data]
  IN IF r # "part_005" THEN base ELSE [base EXCEPT !.agent = inst.agent]

\* ---------------------------------------------------------------- handlers
\* What a listener does when its event is delivered: clear, whether it calls
\* clearTimeout(timer); parse, whether it calls JSON.parse; threw, whether an
\* exception leaves the listener; settle, the settlement it passes on.

Ignored == [clear |-> FALSE, parse |-> FALSE, threw |-> FALSE, settle |-> None]

\* resolve(...) at the end of the 'end' listener, body being the parsed value
ResolveParsed(r, val) ==
  IF r # "part_005"
    THEN IF val.t \in {"null", "undefined"}
           THEN \* body.access_token of null: a TypeError leaves the listener
                [clear |-> TRUE, parse |-> TRUE, threw |-> TRUE, settle |-> None]
           ELSE [clear |-> TRUE, parse |-> TRUE, threw |-> FALSE,
                 settle |-> Some(Resolve(GetProperty(val, "access_token")))]
    ELSE [clear |-> TRUE, parse |-> TRUE, threw |-> FALSE,
          settle |-> Some(Resolve(val))]

\* mutant of EndListener: only the 4xx and 5xx statuses count as failures
EndListenerStatusRange(r, tm, status, text) ==
  IF tm = "null"
    THEN Ignored
    ELSE IF status >= 400
           THEN [clear |-> TRUE, parse |-> FALSE, threw |-> FALSE,
                 settle |-> Some(Reject(StatusError(status, text)))]
           ELSE LET parsed == JSONParse(text)
                IN IF ~parsed.ok
                     THEN [clear |-> TRUE, parse |-> TRUE, threw |-> FALSE,
                           settle |-> Some(Reject(BodyParseError(status, text)))]
                     ELSE ResolveParsed(r, parsed.val)

\* the response's 'end' listener
EndListener(r, tm, status, text) ==
  IF tm = "null"
    THEN Ignored
    ELSE IF status # 200
           THEN [clear |-> TRUE, parse |-> FALSE, threw |-> FALSE,
                 settle |-> Some(Reject(StatusError(status, text)))]
           ELSE LET parsed == JSONParse(text)
                IN IF ~parsed.ok
                     THEN [clear |-> TRUE, parse |-> TRUE, threw |-> FALSE,
                           settle |-> Some(Reject(BodyParseError(status, text)))]
                     ELSE ResolveParsed(r, parsed.val)

\* mutant of ErrorListener: the guard on timer is missing
ErrorListenerUnguarded(tm, err) ==
  [clear |-> TRUE, parse |-> FALSE, threw |-> FALSE,
   settle |-> Some(Reject(err))]

\* mutant of ErrorListener: the transport's error is wrapped in a new one
ErrorListenerWrapped(tm, err) ==
  IF tm = "null"
    THEN Ignored
    ELSE [clear |-> TRUE, parse |-> FALSE, threw |-> FALSE,
          settle |-> Some(Reject(MkError("Request failed", None, None)))]

\* the request's 'error' listener
ErrorListener(tm, err) ==
  IF tm = "null"
    THEN Ignored
    ELSE [clear |-> TRUE, parse |-> FALSE, threw |-> FALSE,
          settle |-> Some(Reject(err))]

\* mutant of TimeoutCallback: the request is not aborted
TimeoutCallbackNoAbort ==
  [abort |-> FALSE, timer |-> "null", settle |-> Some(Reject(TimeoutError))]

\* the timer callback: request.abort(); timer = null; reject(...)
TimeoutCallback ==
  [abort |-> TRUE, timer |-> "null", settle |-> Some(Reject(TimeoutError))]

\* mutant of ClearTimeout: the timer is left in the queue
ClearTimeoutForgotten(ts) == ts

\* clearTimeout on the timer's state in the timer queue
ClearTimeout(ts) == IF ts = "armed" THEN "cleared" ELSE ts

\* -------------------------------------------------------------- verifyHmac
\* Strings are TLA+ strings of ASCII characters.  A query is the parsed query
\* string: a sequence of entries in insertion order, one per key.

CharAt(s, i) == SubSeq(s, i, i)

\* the printable ASCII characters of the codes 32 to 95
AsciiLow ==
  " !\"#$%&'()*+,-./0123456789:;<=>?@ABCDEFGHIJKLMNOPQRSTUVWXYZ[\\]^_"

\* the printable ASCII characters of the codes 97 to 126
AsciiHigh == "abcdefghijklmnopqrstuvwxyz{|}~"

\* the UTF-16 code unit of a character
CharCode(c) ==
  IF \E i \in 1..Len(AsciiLow) : CharAt(AsciiLow, i) = c
    THEN 31 + (CHOOSE i \in 1..Len(AsciiLow) : CharAt(AsciiLow, i) = c)
    ELSE 96 + (CHOOSE i \in 1..Len(AsciiHigh) : CharAt(AsciiHigh, i) = c)

Entry(key, value) == [key |-> key, value |-> value]

\* Object.keys(query)
ObjectKeys(query) == [i \in 1..Len(query) |-> query[i].key]

HasKey(query, key) == \E i \in 1..Len(query) : query[i].key = key

\* query[key]
Lookup(query, key) ==
  IF HasKey(query, key)
    THEN query[CHOOSE i \in 1..Len(query) : query[i].key = key].value
    ELSE QUndefined

RECURSIVE Concat(_, _, _)
\* the strings strs[lo], ..., strs[hi] one after the other
Concat(strs, lo, hi) ==
  IF lo > hi THEN ""
  ELSE IF lo = hi THEN strs[lo]
  ELSE LET mid == (lo + hi) \div 2
       IN Concat(strs, lo, mid) \o Concat(strs, mid + 1, hi)

\* Array.prototype.join of an array of strings
JoinStrings(strs, sep) ==
  Concat([i \in 1..Len(strs) |-> IF i = 1 THEN strs[i] ELSE sep \o strs[i]],
         1, Len(strs))

RECURSIVE NumberToString(_)
\* String(n) for a non-negative integer
NumberToString(num) ==
  IF num < 10 THEN CharAt("0123456789", num + 1)
              ELSE NumberToString(num \div 10)
                     \o CharAt("0123456789", (num % 10) + 1)

RECURSIVE StringOf(_)
\* String(value), and the conversion join applies to each element
StringOf(v) ==
  CASE v.t = "string" -> v.s
    [] v.t = "number" -> NumberToString(v.n)
    [] v.t = "array" ->
         JoinStrings([i \in 1..Len(v.a) |-> StringOf(v.a[i])], ",")
    [] v.t = "undefined" -> "undefined"
    [] v.t = "bare" -> ""  \* never returned: the conversion throws, see
                           \* ConversionThrows, and verifyHmacCall stops there

\* whether String(value), or the join of an array holding value, throws a
\* TypeError: a bare object has no toString and no valueOf to convert it with
RECURSIVE ConversionThrows(_)
ConversionThrows(v) ==
  CASE v.t = "bare" -> TRUE
    [] v.t = "array" -> \E i \in 1..Len(v.a) : ConversionThrows(v.a[i])
    [] OTHER -> FALSE

\* encodeURIComponent of one of the characters % & =
EncodeURIComponent(c) ==
  CASE c = "%" -> "%25"
    [] c = "&" -> "%26"
    [] c = "=" -> "%3D"

\* input.replace(/[...]/g, encodeURIComponent) for a class of characters
ReplaceAll(input, class) ==
  Concat([i \in 1..Len(input) |->
            IF CharAt(input, i) \in class
              THEN EncodeURIComponent(CharAt(input, i))
              ELSE CharAt(input, i)],
         1, Len(input))

\* an encodeValue that replaces = as well
encodeValueAsKey(input) == ReplaceAll(input, {"%", "&", "="})

encodeValue(input) == ReplaceAll(input, {"%", "&"})

\* an encodeKey that leaves = as it is
encodeKeyAsValue(input) == ReplaceAll(input, {"%", "&"})

encodeKey(input) == ReplaceAll(input, {"%", "&", "="})

\* mutant of IsReserved: only hmac is left out of the signing string
IsReservedHmacOnly(key) == key = "hmac"

\* the keys the filter removes
IsReserved(key) == key = "signature" \/ key = "hmac"

\* mutant of ValueString: an array is converted as String(array)
ValueStringUnbracketed(value) == StringOf(value)

\* const value: an array as its elements joined by '", "' inside '["' and
\* '"]', another value as String(value)
ValueString(value) ==
  IF value.t = "array"
    THEN "[\""
           \o JoinStrings([i \in 1..Len(value.a) |-> StringOf(value.a[i])],
                          "\", \"")
           \o "\"]"
    ELSE StringOf(value)

\* the pair: encodeKey(key), then =, then encodeValue(value)
Pair(key, value) == encodeKey(key) \o "=" \o encodeValue(ValueString(value))

\* a < b as sort compares strings: by code units at the first position that
\* differs, a proper prefix first
StringLess(a, b) ==
  LET n == IF Len(a) < Len(b) THEN Len(a) ELSE Len(b)
      differ == {i \in 1..n : CharAt(a, i) # CharAt(b, i)}
  IN IF differ = {}
       THEN Len(a) < Len(b)
       ELSE LET i == CHOOSE k \in differ : \A j \in differ : k <= j
            IN CharCode(CharAt(a, i)) < CharCode(CharAt(b, i))

RECURSIVE Insert(_, _)
Insert(sorted, x) ==
  IF sorted = <<>> THEN <<x>>
  ELSE IF StringLess(x, Head(sorted)) THEN <<x>> \o sorted
  ELSE <<Head(sorted)>> \o Insert(Tail(sorted), x)

\* mutant of SortPairs: the pairs stay in the order of the keys
SortPairsKeepOrder(pairs) == pairs

RECURSIVE SortPairs(_)
\* Array.prototype.sort() of an array of strings
SortPairs(pairs) ==
  IF pairs = <<>> THEN <<>>
                  ELSE Insert(SortPairs(Tail(pairs)), Head(pairs))

\* const pairs = Object.keys(query).filter(...).map(...).sort()
Pairs(query) ==
  LET kept == SelectSeq(query, LAMBDA e : ~IsReserved(e.key))
  IN SortPairs([i \in 1..Len(kept) |-> Pair(kept[i].key, kept[i].value)])

\* pairs.join('&'): the canonical signing string
Canonical(query) == JoinStrings(Pairs(query), "&")

\* HMAC-SHA256 with the key 'foo': the digests, in hexadecimal, of the
\* signing strings the queries below can lead to
HmacTable ==
  { <<"",
       "683716d9d7f82eed174c6caebe086ee93376c79d7c61dd670ea00f7f8d6eb0a8">>,
    <<"code=4d732838ad8c22cd1d2dd96f8a403fb7&shop=qux.myshopify.com&signature=184559898f5bbd1301606e7919c6e67f&state=b77827e928ee8eee614b5808d3276c8a&timestamp=1451929074",
       "6b2fcf6a577eff0d4c7bdc8ebfbcb7deb3ff6df73f022e9a7e696c64fc253295">>,
    <<"code=4d732838ad8c22cd1d2dd96f8a403fb7&shop=qux.myshopify.com&signature=184559898f5bbd1301606e7919c6e67f&state=b77827e928ee8eee614b5808d3276c8a&timestamp=1451933938",
       "7fe1ae5d7a7649de22a3d25f842597a6352aa6d9bec893b26dfb397b9a34b801">>,
    <<"code=4d732838ad8c22cd1d2dd96f8a403fb7&shop=qux.myshopify.com&signature=184559898f5bbd1301606e7919c6e67f&state=b77827e928ee8eee614b5808d3276c8a&timestamp=1492784493",
       "9e9679db2f6883e69da7c630ae90d3146bc2473364630b8ec0502a41b2ac519c">>,
    <<"code=4d732838ad8c22cd1d2dd96f8a403fb7&shop=qux.myshopify.com&signature=x&state=b77827e928ee8eee614b5808d3276c8a&timestamp=1451929074",
       "00ff6e7f78d22295cd89f54f0a5f179a33efc0077158e01441113dfd1a861a52">>,
    <<"code=4d732838ad8c22cd1d2dd96f8a403fb7&shop=qux.myshopify.com&signature=x&state=b77827e928ee8eee614b5808d3276c8a&timestamp=1451933938",
       "cc46136d3911593adac8c6183cd232c43b44ca5117b98df766ec78779ee4c0d3">>,
    <<"code=4d732838ad8c22cd1d2dd96f8a403fb7&shop=qux.myshopify.com&signature=x&state=b77827e928ee8eee614b5808d3276c8a&timestamp=1492784493",
       "548c21123b7357d13f52ee4820a350f3dac2b175f0d474304d884f9ddcb11383">>,
    <<"code=4d732838ad8c22cd1d2dd96f8a403fb7&shop=qux.myshopify.com&state=b77827e928ee8eee614b5808d3276c8a&timestamp=1451929074",
       "3d9b9a7918ac20dfd03b6a0af54a58f0a47980145ae81a37f41597a1e34b528d">>,
    <<"code=4d732838ad8c22cd1d2dd96f8a403fb7&shop=qux.myshopify.com&state=b77827e928ee8eee614b5808d3276c8a&timestamp=1451933938",
       "5d619d95e098c4968427e194f3be1ca5c2bf0a40b90f7cf798ab65f8eee44fb2">>,
    <<"code=4d732838ad8c22cd1d2dd96f8a403fb7&shop=qux.myshopify.com&state=b77827e928ee8eee614b5808d3276c8a&timestamp=1492784493",
       "7016d78c3a2f4ba2916935f6c6902b5e8db5e44db6b7e73702111810c0eed309">>,
    <<"corge=grault&quuz=1,2&shop=qux.myshopify.com&timestamp=1451929074",
       "9bb6c8d5790f8323902a2ff3926e545be4d1269cba41cc43bc1f94d5cb3d40d8">>,
    <<"corge=grault&quuz=1,2&shop=qux.myshopify.com&timestamp=1451933938",
       "f1f97a4ab80682cc2102ad6785969eac45c3f18c6de87c32889c3f9012558479">>,
    <<"corge=grault&quuz=1,2&shop=qux.myshopify.com&timestamp=1492784493",
       "e0951194c14f44ed9556dacc1d2cf4d2f8096c515a41722f14b4ec08626ec9b0">>,
    <<"corge=grault&quuz=2,1&shop=qux.myshopify.com&timestamp=1451929074",
       "474d78fdb630aedf76868109003f4699dfb0b935fbead2ad5062472a47f6c76e">>,
    <<"corge=grault&quuz=2,1&shop=qux.myshopify.com&timestamp=1451933938",
       "be385f73c57939d097fb210e7b022b2ef4906d471018676c4799ec3bee5f879b">>,
    <<"corge=grault&quuz=2,1&shop=qux.myshopify.com&timestamp=1492784493",
       "4b6f1f97f433b312521f443d6dfa295368788321bd9cb25da01b714cefdf4189">>,
    <<"corge=grault&quuz=[\"1\", \"2\"]&shop=qux.myshopify.com&signature=184559898f5bbd1301606e7919c6e67f&timestamp=1451929074",
       "ed6152d87d6d6664a7ffaeb5a8fea220d18e3c1e4af676436c3e18533db34eba">>,
    <<"corge=grault&quuz=[\"1\", \"2\"]&shop=qux.myshopify.com&signature=184559898f5bbd1301606e7919c6e67f&timestamp=1451933938",
       "bbdda1b24de1e27ae0f6806ad097f62995dd756fcea771614246a102d86786fd">>,
    <<"corge=grault&quuz=[\"1\", \"2\"]&shop=qux.myshopify.com&signature=184559898f5bbd1301606e7919c6e67f&timestamp=1492784493",
       "294ad3a42e7dd58f18fd737e116de60ad13482eb23edda918ba333d6a4518de8">>,
    <<"corge=grault&quuz=[\"1\", \"2\"]&shop=qux.myshopify.com&signature=x&timestamp=1451929074",
       "e7281b3bbe500d5f93b33c10a934325c245d8327ecea68a165ead319ba9e74ca">>,
    <<"corge=grault&quuz=[\"1\", \"2\"]&shop=qux.myshopify.com&signature=x&timestamp=1451933938",
       "3b53bee738aca625b1d7b6ccedba2e4bc1b6bb6aff0884ef66667e89ba70de6c">>,
    <<"corge=grault&quuz=[\"1\", \"2\"]&shop=qux.myshopify.com&signature=x&timestamp=1492784493",
       "4492364e80a08f4a25ab0ab4c83564ad1120c981381c3e3ed96308ab6e2b5ab8">>,
    <<"corge=grault&quuz=[\"1\", \"2\"]&shop=qux.myshopify.com&timestamp=1451929074",
       "53f2bcafb8826d71001b36a608f8c996b66c56685434c6c27969eec666c37430">>,
    <<"corge=grault&quuz=[\"1\", \"2\"]&shop=qux.myshopify.com&timestamp=1451933938",
       "1a37256d9b01f155c6e0180fbc108d82d722cdae0da5277c0473c6ee10d11769">>,
    <<"corge=grault&quuz=[\"1\", \"2\"]&shop=qux.myshopify.com&timestamp=1492784493",
       "ffe89c5d47dd26297d47b68e6ad14cf4ee6f11a72b3da7c7a0974d0c3959579a">>,
    <<"corge=grault&quuz=[\"1\", \"2\"]&timestamp=1451929074&shop=qux.myshopify.com",
       "4d98c5fde53fad341ee4378ee2cc7b0a8481060260e9397a01b21ff659517a92">>,
    <<"corge=grault&quuz=[\"1\", \"2\"]&timestamp=1451933938&shop=qux.myshopify.com",
       "f5e6d9939e1d21924139c2bb03d6ff1da44b87f12d1d749770ccd8312b817a49">>,
    <<"corge=grault&quuz=[\"1\", \"2\"]&timestamp=1492784493&shop=qux.myshopify.com",
       "1e95b9861a3fe25ef0b73553e61009bd7227d5d04f665c8a4e71656e65f52ba4">>,
    <<"corge=grault&quuz=[\"2\", \"1\"]&shop=qux.myshopify.com&signature=184559898f5bbd1301606e7919c6e67f&timestamp=1451929074",
       "719aeda7007a5c4fb1464065c0d417309d2c946958592a69861d198de97ce550">>,
    <<"corge=grault&quuz=[\"2\", \"1\"]&shop=qux.myshopify.com&signature=184559898f5bbd1301606e7919c6e67f&timestamp=1451933938",
       "c07a8c30e983632fa02602d8af052650d2c5c278c66e671b9227bd9b6f8d4980">>,
    <<"corge=grault&quuz=[\"2\", \"1\"]&shop=qux.myshopify.com&signature=184559898f5bbd1301606e7919c6e67f&timestamp=1492784493",
       "0c043604eba4c0894e56c2f525e6d2048bfab7e962375a6ecc2733ba44e3402b">>,
    <<"corge=grault&quuz=[\"2\", \"1\"]&shop=qux.myshopify.com&signature=x&timestamp=1451929074",
       "e90ad9289d5211762a2d983795f45e0b1663a6ea9bd08aac9b67f9e4779a2f28">>,
    <<"corge=grault&quuz=[\"2\", \"1\"]&shop=qux.myshopify.com&signature=x&timestamp=1451933938",
       "a8e28dcbc53280015fe428e9ea47780f459448d4b2f2d8426c4923bf682129e8">>,
    <<"corge=grault&quuz=[\"2\", \"1\"]&shop=qux.myshopify.com&signature=x&timestamp=1492784493",
       "376b47784dff55b33777483283c76d2f9b4e6fc4e29553e6f60d4b3d61e289f0">>,
    <<"corge=grault&quuz=[\"2\", \"1\"]&shop=qux.myshopify.com&timestamp=1451929074",
       "ff3dd7e833b2e91e7617ecac8997c6040b6a759e60efcff172c7310106e807a3">>,
    <<"corge=grault&quuz=[\"2\", \"1\"]&shop=qux.myshopify.com&timestamp=1451933938",
       "22c6560bbc5879a85afb4b3cd51f343a5453f838ae8c420bc9022ef7c672e3bd">>,
    <<"corge=grault&quuz=[\"2\", \"1\"]&shop=qux.myshopify.com&timestamp=1492784493",
       "7019d081921cada3b70855decc501be1344bbc340b1b4fd61667a9b7af110b0c">>,
    <<"corge=grault&quuz=[\"2\", \"1\"]&timestamp=1451929074&shop=qux.myshopify.com",
       "10bb62b9a43fdab1323c41fc0a1652fd0585f7ec579c05564da2dd2b37d8c145">>,
    <<"corge=grault&quuz=[\"2\", \"1\"]&timestamp=1451933938&shop=qux.myshopify.com",
       "94f3d995883af730bc4e752c548a8ca66c85ba04bdf28805c1a61eaa69aca265">>,
    <<"corge=grault&quuz=[\"2\", \"1\"]&timestamp=1492784493&shop=qux.myshopify.com",
       "a187f8ea497aeecaadf29fd0693ff2daf1a3b37bcdcf595931887ad94c69ae5e">>,
    <<"k%3D=v%26%25%3D&n=7",
       "a66e236732e850971d654186d8ea08e559e4a1e2d02e5bf86ccb1ca0cdafae8c">>,
    <<"k%3D=v%26%25%3D&n=8",
       "dbf21bb54e6fdae9cc62ea3190e9d0635c3eeea880b63debcbde946f2a9ee374">>,
    <<"k%3D=v%26%25=&n=7",
       "32c9e3fd25db22702e6ac49345ee41ab46ef2848c4e9a3384067f3349a2bdfdd">>,
    <<"k%3D=v%26%25=&n=7&signature=184559898f5bbd1301606e7919c6e67f",
       "3e4d15f6c9a021e7c207a4367b9a350d9d9dc551cf2457c662ac77b3c6ec0211">>,
    <<"k%3D=v%26%25=&n=7&signature=x",
       "8bac3fb10d78bbcd6b4f4aebf71f926b98399519cb62bc0069186cc3ff9463c8">>,
    <<"k%3D=v%26%25=&n=8",
       "620f51580ee49d15544bfaf85e3173c3d763e7886322f1339683d86854679a42">>,
    <<"k%3D=v%26%25=&n=8&signature=184559898f5bbd1301606e7919c6e67f",
       "7092ab80d6a37520d0c1e972b87997e3b0b765e5a1c339111b253fa11e0fb827">>,
    <<"k%3D=v%26%25=&n=8&signature=x",
       "b68fb764d2498b0b30418c38f0e3d8f693f2ff9b3b27c6512ab826468c87aa2d">>,
    <<"k=v%26%25%3D&n=7",
       "f7cfe1c5915b197f4e9f9965bcd4828a339a8c5ede2ab8f95b1fd823ac267254">>,
    <<"k=v%26%25%3D&n=8",
       "b705f781b91842f92dc3a85ad01afbc5e64d952af8e90c1a886cb3a80ddf0bad">>,
    <<"k=v%26%25=&n=7",
       "2447f3803b49c56d7a15267fced70aee6a3323dd5f42fa55ae3ab21f777d1d92">>,
    <<"k=v%26%25=&n=7&signature=184559898f5bbd1301606e7919c6e67f",
       "148e478b4403cd82f59f6f7685c9ce793bf25fca71c0acb3d004a0b91200543a">>,
    <<"k=v%26%25=&n=7&signature=x",
       "8a23eb24164bf8c84b52855775efed0af5fe90fc840ca0ed057b111e8092193d">>,
    <<"k=v%26%25=&n=8",
       "d41f148036804e6467d7a3badf597b13be604486b420fc656fc6c77d98bff440">>,
    <<"k=v%26%25=&n=8&signature=184559898f5bbd1301606e7919c6e67f",
       "785ae06ed2b7c5d84423d32c7716d951ff9c6f5ba50942fdc19696d29224e34f">>,
    <<"k=v%26%25=&n=8&signature=x",
       "9d0b103e12e7f682cb8beeb5bac32e201f38c14c2952f76f23e8df78b64615ab">>,
    <<"n=7&k%3D=v%26%25=",
       "7f6266af2c1b294f0619c43921e5192a6476067bdb721f7f8ae08a8347c5a05e">>,
    <<"n=7&k=v%26%25=",
       "efcca6fbe30fb8872a05d3621deadd16ad15183878b4f4d83c821e7e97bb3b3d">>,
    <<"n=8&k%3D=v%26%25=",
       "bdf35d2447057f3aa6e2d711603aa1822b5a75d9da0481132daf36cb032936ee">>,
    <<"n=8&k=v%26%25=",
       "60f8020e877b084223d93f6aef09e9eca1ed41cda9e6485dcd72d1ed72c3e8d2">>,
    <<"shop=qux.myshopify.com&timestamp=1451929074&quuz=[\"1\", \"2\"]&corge=grault",
       "f0552a5c434ec5e15f7ce66b39f8210e863cc312381ebf0167e7ed552d934673">>,
    <<"shop=qux.myshopify.com&timestamp=1451929074&quuz=[\"2\", \"1\"]&corge=grault",
       "d314c7ad6185436fa8672a15bf48a93a9c5728c5f0ba616d9ffac4adab8f6ea7">>,
    <<"shop=qux.myshopify.com&timestamp=1451933938&quuz=[\"1\", \"2\"]&corge=grault",
       "e257c222268c57dfd4d5c5be085275a9c9b67f5bbfed096664b44c55a20513f8">>,
    <<"shop=qux.myshopify.com&timestamp=1451933938&quuz=[\"2\", \"1\"]&corge=grault",
       "ebcae23dd7023c4ddc2c004026f57fd7076a880c68e6865f75ce11590112ccd8">>,
    <<"shop=qux.myshopify.com&timestamp=1492784493&quuz=[\"1\", \"2\"]&corge=grault",
       "1f73cd4158a2808f404dd0cd6ffbdc4383e81a732305e550d699c010a2c970ef">>,
    <<"shop=qux.myshopify.com&timestamp=1492784493&quuz=[\"2\", \"1\"]&corge=grault",
       "191943bd604a8fa3a098eb1a39e79cdc3bb70cfe578bfd3a74fe48a6ae8715d6">>,
    <<"signature=184559898f5bbd1301606e7919c6e67f",
       "4bd3f03b951c0849374c1fec46d67df1092de90345ca21c4d0b73a18ad3738c8">>,
    <<"signature=184559898f5bbd1301606e7919c6e67f&t=1",
       "53c5b7d3ca2e6110b88140a749fd22b79066c29110286718f49af16957fe1ce5">>,
    <<"signature=184559898f5bbd1301606e7919c6e67f&t=63",
       "bf5b29fe64afee86437bdd79350d9d5fba41e5ddd36c3bbb0f3706157627a2f2">>,
    <<"signature=x",
       "c0e03408dd297d4ef616ae5037ced55d2bb3ed68764234df5f59b3344be20ba6">>,
    <<"signature=x&t=1",
       "79d5209655d6e26a369ec188b06454317023f3929c689ec0c647d4ae7e87d351">>,
    <<"signature=x&t=63",
       "1516c461c22bd58321f5d0c53e7c8120da45dce5d971b3999f85ca3cb0ebcef8">>,
    <<"state=b77827e928ee8eee614b5808d3276c8a&code=4d732838ad8c22cd1d2dd96f8a403fb7&shop=qux.myshopify.com&timestamp=1451929074",
       "12698612a41d88b13596759a360628affbdb43d90d721ef63a3205279a6be439">>,
    <<"state=b77827e928ee8eee614b5808d3276c8a&code=4d732838ad8c22cd1d2dd96f8a403fb7&shop=qux.myshopify.com&timestamp=1451933938",
       "ba85fd9f006cdaec34a3cd34b3b38f2b178f472242c575aee6791121206e14ea">>,
    <<"state=b77827e928ee8eee614b5808d3276c8a&code=4d732838ad8c22cd1d2dd96f8a403fb7&shop=qux.myshopify.com&timestamp=1492784493",
       "de421928863a1fe39cb9483b315ba5c389ea826e65f96756075032370d890910">>,
    <<"t=1",
       "dd0bb7376fc7f153ac86357b8cf6829d5b4117f77f62e371ab6615d2c51cfc95">>,
    <<"t=63",
       "f6fb34b932a7972f003163e2ae9ab4a9e882aa412cfd03ab86cff5b567071800">>,
    <<"timestamp=1451929074&shop=qux.myshopify.com&code=4d732838ad8c22cd1d2dd96f8a403fb7&state=b77827e928ee8eee614b5808d3276c8a",
       "ed4d709be20ce5519ab92e71f39639d4a307a6d891cb514363f685fee102b739">>,
    <<"timestamp=1451933938&shop=qux.myshopify.com&code=4d732838ad8c22cd1d2dd96f8a403fb7&state=b77827e928ee8eee614b5808d3276c8a",
       "31a2a38835cfa0859d3a5b22d7b3198be6ff99a83e4b23ec8421eae8d59bada7">>,
    <<"timestamp=1492784493&shop=qux.myshopify.com&code=4d732838ad8c22cd1d2dd96f8a403fb7&state=b77827e928ee8eee614b5808d3276c8a",
       "cab0e1a63c56811ba64028dae716ff6042639f6fe12321bf2c952254c290dc32">> }

\* crypto.createHmac('sha256', secret).update(message).digest('hex')
HmacSha256Hex(secret, message) ==
  IF secret = "foo"
    THEN (CHOOSE p \in HmacTable : p[1] = message)[2]
    ELSE ""

HexDigits == "0123456789abcdef"

HexDigitsUpper == "0123456789ABCDEF"

IndexIn(str, c) ==
  IF \E i \in 1..Len(str) : CharAt(str, i) = c
    THEN CHOOSE i \in 1..Len(str) : CharAt(str, i) = c
    ELSE 0

\* the value of a hexadecimal digit of either case, -1 for another character
HexValue(c) ==
  IF IndexIn(HexDigits, c) > 0 THEN IndexIn(HexDigits, c) - 1
  ELSE IF IndexIn(HexDigitsUpper, c) > 0 THEN IndexIn(HexDigitsUpper, c) - 1
  ELSE -1

\* whether the characters 2k-1 and 2k of str are two hexadecimal digits
IsHexPair(str, k) ==
  /\ 2 * k <= Len(str)
  /\ HexValue(CharAt(str, 2 * k - 1)) >= 0
  /\ HexValue(CharAt(str, 2 * k)) >= 0

\* Buffer.from(str, 'hex'): one byte per pair of hexadecimal digits, the
\* decoding stops at the first pair that is not one
BufferFromHex(str) ==
  LET pairs == Len(str) \div 2
      bad == {k \in 1..pairs : ~IsHexPair(str, k)}
      n == IF bad = {} THEN pairs
                       ELSE (CHOOSE k \in bad : \A j \in bad : k <= j) - 1
  IN [k \in 1..n |-> 16 * HexValue(CharAt(str, 2 * k - 1))
                       + HexValue(CharAt(str, 2 * k))]

\* buffer.toString('hex')
ToHex(bytes) ==
  Concat([i \in 1..Len(bytes) |->
            CharAt(HexDigits, (bytes[i] \div 16) + 1)
              \o CharAt(HexDigits, (bytes[i] % 16) + 1)],
         1, Len(bytes))

\* crypto.createHmac('sha256', secret).update(message).digest()
HmacSha256(secret, message) == BufferFromHex(HmacSha256Hex(secret, message))

\* bit k of a byte
Bit(a, k) == (a \div (2 ^ k)) % 2

\* a ^ b for two bytes
BitXor(a, b) ==
  LET x(k) == ((Bit(a, k) + Bit(b, k)) % 2) * (2 ^ k)
  IN x(0) + x(1) + x(2) + x(3) + x(4) + x(5) + x(6) + x(7)

\* a | b for two bytes
BitOr(a, b) ==
  LET x(k) == (IF Bit(a, k) = 1 \/ Bit(b, k) = 1 THEN 1 ELSE 0) * (2 ^ k)
  IN x(0) + x(1) + x(2) + x(3) + x(4) + x(5) + x(6) + x(7)

\* b[i] as the operator ^ reads it: undefined past the end, converted to 0
ByteAt(b, i) == IF i <= Len(b) THEN b[i] ELSE 0

\* for (let i = 0; i < a.length; i++) result |= a[i] ^ b[i]: the value of
\* result after the loop, a bit being set if it is set in one of the a[i]^b[i]
TimingLoop(a, b) ==
  LET x(k) == IF \E i \in 1..Len(a) : Bit(BitXor(a[i], ByteAt(b, i)), k) = 1
                THEN 2 ^ k ELSE 0
  IN x(0) + x(1) + x(2) + x(3) + x(4) + x(5) + x(6) + x(7)

\* timingSafeEqual(a, b) and the number of positions it examines
timingSafeEqual(a, b) ==
  [equal |-> TimingLoop(a, b) = 0, steps |-> {Len(a)}]

\* the first position where two strings of one length differ, the length if
\* there is none
FirstMismatch(a, b) ==
  IF a = b THEN Len(a)
  ELSE CHOOSE i \in 1..Len(a) :
         /\ CharAt(a, i) # CharAt(b, i)
         /\ \A j \in 1..(i - 1) : CharAt(a, j) = CharAt(b, j)

\* a === b for a string a, and the positions the comparison may examine: the
\* engine may stop at the first character that differs
StrictEquals(a, v) ==
  IF v.t # "string" THEN [equal |-> FALSE, steps |-> {0}]
  ELSE IF Len(a) # Len(v.s) THEN [equal |-> FALSE, steps |-> {0}]
  ELSE [equal |-> a = v.s, steps |-> {FirstMismatch(a, v.s), Len(a)}]

\* Buffer.byteLength(str) of a string of ASCII characters
Utf8Length(str) == Len(str)

\* verifyHmac(query): the value returned, the numbers of positions the digest
\* comparison may examine, and whether the HMAC was computed
verifyHmac(r, inst, query) ==
  LET message == Canonical(query)
      hmac == Lookup(query, "hmac")
  IN IF r = "index.js"
       THEN LET digest == ToHex(HmacSha256(inst.sharedSecret, message))
                cmp == StrictEquals(digest, hmac)
            IN [result |-> cmp.equal, steps |-> cmp.steps, digested |-> TRUE]
       ELSE IF hmac.t # "string" \/ Utf8Length(hmac.s) # 64
              THEN [result |-> FALSE, steps |-> {0}, digested |-> FALSE]
              ELSE LET digest == HmacSha256(inst.sharedSecret, message)
                       cmp == timingSafeEqual(digest, BufferFromHex(hmac.s))
                   IN [result |-> cmp.equal, steps |-> cmp.steps,
                       digested |-> TRUE]

\* what the argument of verifyHmac can be: an object, null or undefined
ArgTypes == {"object", "null", "undefined"}

\* the exception a call ends with
TypeError == "TypeError"

\* whether Object.keys(query) throws
ObjectKeysThrows(type) == type # "object"

\* whether building the pairs throws: a parameter left by the filter has a
\* value that cannot be converted to a string
PairsThrow(query) ==
  \E i \in 1..Len(query) :
    /\ ~IsReserved(query[i].key)
    /\ ConversionThrows(query[i].value)

\* the query as a call leaves it that filters with delete
ArgumentAfterDelete(query) ==
  SelectSeq(query, LAMBDA e : e.key \notin {"signature", "hmac"})

\* the query as the call leaves it: keys, filter and map each make a new
\* array, sort orders the array map made, and join makes a string
ArgumentAfter(query) == query

\* a call of verifyHmac with an argument of the type given: the exception it
\* ends with, if any, what verifyHmac(query) returns otherwise, and the
\* query as it is left
\* what a call of verifyHmac does, in the order of its statements: "keys" is
\* Object.keys(query), "pairs" the reading, converting and encoding of the
\* parameters, "guard" the test of query.hmac that src/unnamed/part_005 has
\* after the pairs, "digest" the HMAC and "compare" the comparison
StatementsRun(r, type, query, digested) ==
  IF ObjectKeysThrows(type) THEN <<"keys">>
  ELSE IF PairsThrow(query) THEN <<"keys", "pairs">>
  ELSE IF r = "index.js" THEN <<"keys", "pairs", "digest", "compare">>
  ELSE IF digested THEN <<"keys", "pairs", "guard", "digest", "compare">>
  ELSE <<"keys", "pairs", "guard">>

verifyHmacCall(r, inst, type, query) ==
  IF ObjectKeysThrows(type) \/ PairsThrow(query)
    THEN [threw |-> Some(TypeError), returned |-> None, query |-> query,
          ran |-> StatementsRun(r, type, query, FALSE)]
    ELSE LET run == verifyHmac(r, inst, query)
         IN [threw |-> None, returned |-> Some(run),
             query |-> ArgumentAfter(query),
             ran |-> StatementsRun(r, type, query, run.digested)]

\* ------------------------------------------------- verifyHmac: the queries

\* the value of t whose signature ends with the byte 00
ZeroTailValue == "63"

\* the queries of the tests of verifyHmac, one of them also with the legacy
\* field signature, and two more, each with the hmac the platform computes
\* for it
SignedQueries ==
  { << Entry("hmac", QString(
         "3d9b9a7918ac20dfd03b6a0af54a58f0a47980145ae81a37f41597a1e34b528d")),
       Entry("signature", QString("184559898f5bbd1301606e7919c6e67f")),
       Entry("state", QString("b77827e928ee8eee614b5808d3276c8a")),
       Entry("code", QString("4d732838ad8c22cd1d2dd96f8a403fb7")),
       Entry("shop", QString("qux.myshopify.com")),
       Entry("timestamp", QString("1451929074")) >>,
    << Entry("hmac", QString(
         "3d9b9a7918ac20dfd03b6a0af54a58f0a47980145ae81a37f41597a1e34b528d")),
       Entry("state", QString("b77827e928ee8eee614b5808d3276c8a")),
       Entry("code", QString("4d732838ad8c22cd1d2dd96f8a403fb7")),
       Entry("shop", QString("qux.myshopify.com")),
       Entry("timestamp", QString("1451929074")) >>,
    << Entry("hmac", QString(
         "ffe89c5d47dd26297d47b68e6ad14cf4ee6f11a72b3da7c7a0974d0c3959579a")),
       Entry("shop", QString("qux.myshopify.com")),
       Entry("timestamp", QString("1492784493")),
       Entry("quuz", QArray(<<QNumber(1), QNumber(2)>>)),
       Entry("corge", QString("grault")) >>,
    << Entry("t", QString(ZeroTailValue)),
       Entry("hmac", QString(
         "f6fb34b932a7972f003163e2ae9ab4a9e882aa412cfd03ab86cff5b567071800"))
    >>,
    << Entry("k=", QString("v&%=")),
       Entry("hmac", QString(
         "32c9e3fd25db22702e6ac49345ee41ab46ef2848c4e9a3384067f3349a2bdfdd")),
       Entry("n", QNumber(7)) >> }

\* verifyHmac({})
EmptyQuery == <<>>

\* the values a tampered query may carry for a key
ValuesFor(key) ==
  CASE key = "timestamp" ->
         {QString("1451929074"), QString("1451933938"), QString("1492784493")}
    [] key = "quuz" ->
         {QArray(<<QNumber(1), QNumber(2)>>),
          QArray(<<QString("1"), QString("2")>>),
          QString("[\"1\", \"2\"]"),
          QArray(<<QNumber(2), QNumber(1)>>)}
    [] key = "t" -> {QString(ZeroTailValue), QString("1"), QNumber(1)}
    [] key = "n" -> {QNumber(7), QString("7"), QNumber(8), QBare}
    [] OTHER -> {}

\* the keys a tampered query may carry in place of a key
RenamesOf(key) ==
  CASE key = "k=" -> {"k"}
    [] key = "k" -> {"k="}
    [] OTHER -> {}

\* the values of the legacy field signature
Signatures == {"184559898f5bbd1301606e7919c6e67f", "x"}

ReplaceAt(str, i, c) ==
  SubSeq(str, 1, i - 1) \o c \o SubSeq(str, i + 1, Len(str))

\* the positions of hmac a tampered query has another character at
FlipPositions == {1, 2, 63, 64}

\* the characters a tampered query has there
FlipChars == {"0", "7", "a", "F", "z"}

\* the values of hmac a tampered query may carry instead of the 64-character
\* string h
MalformedHmacs(h) ==
  { QUndefined, QArray(<<QString(h)>>), QString(SubSeq(h, 1, 63)),
    QString(h \o "0"), QString("") }

\* query with query[key] = value: a new key is added last
SetEntry(query, key, value) ==
  IF HasKey(query, key)
    THEN [i \in 1..Len(query) |->
            IF query[i].key = key THEN Entry(key, value) ELSE query[i]]
    ELSE Append(query, Entry(key, value))

\* query after delete query[key]
RemoveEntry(query, key) == SelectSeq(query, LAMBDA e : e.key # key)

\* query with the key old spelled new, the value kept
RenameEntry(query, old, new) ==
  [i \in 1..Len(query) |->
     IF query[i].key = old THEN Entry(new, query[i].value) ELSE query[i]]

\* the keys inserted in the opposite order
Reverse(query) == [i \in 1..Len(query) |-> query[Len(query) + 1 - i]]

\* ------------------------------------------------------------------- state

\* ------------------------------------------------------------ generateNonce

\* the size handed to crypto.randomBytes
NonceBytes == 16

\* buffers crypto.randomBytes(16) can return
RandomBuffers ==
  { [i \in 1..NonceBytes |-> 255],
    [i \in 1..NonceBytes |-> (i * 37) % 256] }

\* a generateNonce that cuts the hexadecimal text to 16 characters
generateNonceShort(bytes) == SubSeq(ToHex(bytes), 1, 16)

\* generateNonce(), given the buffer crypto.randomBytes returns to it
generateNonce(bytes) == ToHex(bytes)

\* ---------------------------------------------------------- generateAuthUrl

\* whether a value is truthy
Truthy(v) ==
  CASE v.t = "undefined" -> FALSE
    [] v.t = "string" -> Len(v.s) > 0
    [] v.t = "number" -> v.n # 0
    [] OTHER -> TRUE

\* String.prototype.endsWith
EndsWith(str, suffix) ==
  /\ Len(str) >= Len(suffix)
  /\ SubSeq(str, Len(str) - Len(suffix) + 1, Len(str)) = suffix

\* String.prototype.includes for one character
Includes(str, c) == \E i \in 1..Len(str) : CharAt(str, i) = c

\* the characters querystring.escape leaves as they are
QsUnreserved ==
  "ABCDEFGHIJKLMNOPQRSTUVWXYZabcdefghijklmnopqrstuvwxyz0123456789-_.!~*'()"

QsUnreservedChars == {CharAt(QsUnreserved, i) : i \in 1..Len(QsUnreserved)}

\* querystring.escape of a text of ASCII characters
QsEscape(str) ==
  Concat([i \in 1..Len(str) |->
            LET c == CharAt(str, i)
            IN IF c \in QsUnreservedChars
                 THEN c
                 ELSE "%" \o CharAt(HexDigitsUpper, (CharCode(c) \div 16) + 1)
                          \o CharAt(HexDigitsUpper, (CharCode(c) % 16) + 1)],
         1, Len(str))

\* querystring's stringifyPrimitive: the text a value is written as
QsPrimitive(v) ==
  CASE v.t = "string" -> v.s
    [] v.t = "number" -> NumberToString(v.n)
    [] OTHER -> ""

\* the key=value texts querystring.stringify writes for one key: one for a
\* primitive, one for each element of an array
QsPairs(e) ==
  IF e.value.t = "array"
    THEN [i \in 1..Len(e.value.a) |->
            QsEscape(e.key) \o "=" \o QsEscape(QsPrimitive(e.value.a[i]))]
    ELSE << QsEscape(e.key) \o "=" \o QsEscape(QsPrimitive(e.value)) >>

\* querystring.stringify(query)
QsStringify(query) ==
  LET texts == [i \in 1..Len(query) |-> JoinStrings(QsPairs(query[i]), "&")]
      kept == SelectSeq(texts, LAMBDA t : Len(t) > 0)
  IN JoinStrings(kept, "&")

\* a url.format that leaves the path out
UrlFormatHostOnly(obj) ==
  obj.protocol \o "//" \o obj.hostname \o "?" \o QsStringify(obj.query)

\* url.format of an object with protocol, hostname, pathname and query: the
\* host name is written as it is, in brackets when it holds a colon
UrlFormat(obj) ==
  LET host == IF Includes(obj.hostname, ":")
                THEN "[" \o obj.hostname \o "]"
                ELSE obj.hostname
      qs == QsStringify(obj.query)
      search == IF Len(qs) > 0 THEN "?" \o qs ELSE ""
  IN obj.protocol \o "//" \o host \o obj.pathname \o search

\* the suffix of the shops' domains
ShopDomain == ".myshopify.com"

\* the host name of the shop
Hostname(r, shop) ==
  IF r # "index.js" /\ EndsWith(shop, ShopDomain) THEN shop
                                                   ELSE shop \o ShopDomain

\* the scope a generateAuthUrl writes that takes the instance's scopes always
ResolveScopesDefault(inst, scopes) == inst.scopes

\* scopes || (scopes = this.scopes)
ResolveScopes(inst, scopes) == IF Truthy(scopes) THEN scopes ELSE inst.scopes

\* Array.isArray(scopes) ? scopes.join(',') : scopes
ScopeParameter(scopes) ==
  IF scopes.t = "array" THEN QString(StringOf(scopes)) ELSE scopes

\* the state a generateAuthUrl writes that generates a nonce always
ResolveNonceFresh(nonce, bytes) == QString(ToHex(bytes))

\* nonce || this.generateNonce()
ResolveNonce(nonce, bytes) ==
  IF Truthy(nonce) THEN nonce ELSE QString(generateNonce(bytes))

\* accessMode || (accessMode = this.accessMode); src/index.js has neither the
\* parameter nor the field
ResolveAccessMode(r, inst, accessMode) ==
  IF r = "index.js" THEN QUndefined
  ELSE IF Truthy(accessMode) THEN accessMode
  ELSE inst.accessMode

\* the instance after a generateAuthUrl that stores the scopes handed to it
InstanceAfterOverride(inst, scopes, accessMode) ==
  IF Truthy(scopes) THEN [inst EXCEPT !.scopes = scopes] ELSE inst

\* the instance after generateAuthUrl: scopes = this.scopes and
\* accessMode = this.accessMode assign to the parameters, and nothing is
\* assigned to a field of this
InstanceAfterAuthUrl(inst, scopes, accessMode) == inst

\* generateAuthUrl(shop, scopes, nonce, accessMode): the URL returned and
\* whether generateNonce was called, which then got bytes from
\* crypto.randomBytes
generateAuthUrl(r, inst, shop, scopes, nonce, accessMode, bytes) ==
  LET mode == ResolveAccessMode(r, inst, accessMode)
      base == << Entry("scope", ScopeParameter(ResolveScopes(inst, scopes))),
                 Entry("state", ResolveNonce(nonce, bytes)),
                 Entry("redirect_uri", QString(inst.redirectUri)),
                 Entry("client_id", QString(inst.apiKey)) >>
      query == IF Truthy(mode)
                 THEN Append(base, Entry("grant_options[]", mode))
                 ELSE base
  IN [url |-> UrlFormat([pathname |-> "/admin/oauth/authorize",
                         hostname |-> Hostname(r, shop),
                         protocol |-> "https:",
                         query |-> query]),
      drew |-> ~Truthy(nonce)]

\* --------------------------------------------------- reading a URL back
\* url.parse(uri, true), which the tests read the URL with.

\* the least position from on of a character of chars, Len(str) + 1 if none
IndexOfAny(str, chars, from) ==
  LET hits == {i \in from..Len(str) : CharAt(str, i) \in chars}
  IN IF hits = {} THEN Len(str) + 1
                  ELSE CHOOSE i \in hits : \A j \in hits : i <= j

\* the character of a code unit from 32 to 126
CharOfCode(code) ==
  IF code >= 32 /\ code <= 95 THEN CharAt(AsciiLow, code - 31)
  ELSE IF code >= 97 /\ code <= 126 THEN CharAt(AsciiHigh, code - 96)
  ELSE ""

\* whether position i of str starts an escape: % and two hexadecimal digits
IsEscapeAt(str, i) ==
  /\ i >= 1
  /\ i + 2 <= Len(str)
  /\ CharAt(str, i) = "%"
  /\ HexValue(CharAt(str, i + 1)) >= 0
  /\ HexValue(CharAt(str, i + 2)) >= 0

\* querystring.unescape of a text whose escapes are of ASCII characters
QsUnescape(str) ==
  Concat([i \in 1..Len(str) |->
            IF IsEscapeAt(str, i)
              THEN CharOfCode(16 * HexValue(CharAt(str, i + 1))
                                + HexValue(CharAt(str, i + 2)))
            ELSE IF IsEscapeAt(str, i - 1) \/ IsEscapeAt(str, i - 2) THEN ""
            ELSE IF CharAt(str, i) = "+" THEN " "
            ELSE CharAt(str, i)],
         1, Len(str))

\* str.split(sep) for a separator of one character
Split(str, sep) ==
  LET seps == {i \in 1..Len(str) : CharAt(str, i) = sep}
      n == Cardinality(seps)
      \* the position of the k-th separator; 0 and Len(str) + 1 at the ends
      at(k) == IF k = 0 THEN 0
               ELSE IF k > n THEN Len(str) + 1
               ELSE CHOOSE i \in seps : Cardinality({j \in seps : j < i}) = k - 1
  IN [k \in 1..(n + 1) |-> SubSeq(str, at(k - 1) + 1, at(k) - 1)]

\* querystring.parse(search): the parameters in their order, each a key and
\* a value
QsParse(search) ==
  LET parts == SelectSeq(Split(search, "&"), LAMBDA t : Len(t) > 0)
  IN [i \in 1..Len(parts) |->
        LET eq == IndexOfAny(parts[i], {"="}, 1)
        IN [key |-> QsUnescape(SubSeq(parts[i], 1, eq - 1)),
            value |-> QsUnescape(SubSeq(parts[i], eq + 1, Len(parts[i])))]]

\* url.parse(uri, true) of a URL with a protocol and two slashes
UrlParse(uri) ==
  LET colon == IndexOfAny(uri, {":"}, 1)
      hostStart == colon + 3
      hostEnd == IndexOfAny(uri, {"/", "?", "#"}, hostStart)
      pathEnd == IndexOfAny(uri, {"?", "#"}, hostEnd)
      searchEnd == IndexOfAny(uri, {"#"}, pathEnd)
  IN [protocol |-> SubSeq(uri, 1, colon),
      hostname |-> SubSeq(uri, hostStart, hostEnd - 1),
      pathname |-> SubSeq(uri, hostEnd, pathEnd - 1),
      query |-> QsParse(SubSeq(uri, pathEnd + 1, searchEnd - 1))]

\* the values a parsed query has for a key, in their order
ValuesOf(query, key) ==
  LET hits == SelectSeq(query, LAMBDA e : e.key = key)
  IN [i \in 1..Len(hits) |-> hits[i].value]

VARIABLES
  rev,          \* the revision of the module that is loaded
  options,      \* the options the constructor was called with
  this,         \* the instance
  args,         \* the arguments of the call of getAccessToken
  pc,           \* "idle" before the call, "called" once the executor has run
  requests,     \* the requests handed to https.request, in order
  timer,        \* the executor's variable timer: "unset", "handle" or "null"
  timerState,   \* the timer in the timer queue: none, armed, cleared, fired
  timerDelay,   \* the delay the timer was armed with
  aborts,       \* calls of request.abort()
  response,     \* the status of the response once 'response' was emitted
  body,         \* the 'end' listener's variable body, as buffered so far
  chunks,       \* 'data' events delivered
  ended,        \* whether the response emitted 'end'
  transportErr, \* the error the request emitted, if any
  promise,      \* the promise returned to the caller
  settleCalls,  \* calls of resolve or reject
  parseCalls,   \* calls of JSON.parse
  uncaught,     \* whether an exception left a listener
  events,       \* the completion events delivered, each with what its
                \* listener passed to resolve or reject
  calls,        \* two concurrent calls: the state of each call
  cells,        \* two concurrent calls: the variables timer, by binding
  actor,        \* two concurrent calls: the call the last step belonged to
  reqType,      \* verifyHmac: what its argument is, see ArgTypes
  reqQuery,     \* verifyHmac: the query of the callback request
  verdict,      \* verifyHmac: what it returned for reqQuery, once called
  cmpSteps,     \* verifyHmac: the positions its digest comparison examined
  thrown,       \* verifyHmac: the exception the call ended with, if any
  ran,          \* verifyHmac: what the call did, in order
  before,       \* verifyHmac: the query reqQuery was made from, with the
                \* verdict and the positions examined for it
  edit,         \* verifyHmac: how reqQuery differs from that query
  edits,        \* verifyHmac: changes made so far
  ctor,         \* the constructor call: whether it threw, once it was made
  lastCall,     \* the last call of generateNonce or generateAuthUrl, with
                \* its arguments, what crypto.randomBytes handed it and what
                \* it returned
  apiCalls,     \* calls of generateNonce and generateAuthUrl so far
  left,         \* the signing string: a mapping of parameters to strings
  right,        \* the signing string: a second such mapping
  signing,      \* the signing string: the signing strings of the two
                \* mappings, once they were built
  session,      \* the example application: req.session, its state and token
  reqs,         \* the example application: the callback requests, each with
                \* its query, how far it got and the status it was answered
  started       \* the example application: calls of getAccessToken made
                \* since session.state was last assigned a nonce

\* the state of the single call followed by Spec
callVars ==
  <<args, pc, requests, timer, timerState, timerDelay, aborts, response, body,
    chunks, ended, transportErr, promise, settleCalls, parseCalls, uncaught,
    events>>

\* the state of the two concurrent calls followed by ConcSpec
concVars == <<calls, cells, actor>>

\* the state of the callback queries followed by HmacSpec
hmacVars ==
  <<reqType, reqQuery, verdict, cmpSteps, thrown, ran, before, edit, edits>>

\* the state of the construction and of the calls followed by ApiSpec
apiVars == <<ctor, lastCall, apiCalls>>

\* the state of the two mappings followed by CanonSpec
canonVars == <<left, right, signing>>

\* the state of the example application followed by AppSpec
appVars == <<session, reqs, started>>

vars ==
  <<rev, options, this, callVars, concVars, hmacVars, apiVars, canonVars,
    appVars>>

\* the part of the state a listener's run can change
Deliver(ev, run) ==
  /\ promise' = IF run.settle = None THEN promise
                                     ELSE Settle(promise, run.settle[1])
  /\ settleCalls' = IF run.settle = None THEN settleCalls ELSE settleCalls + 1
  /\ events' = Append(events, [ev |-> ev, settle |-> run.settle])

Statuses == {200, 204, 400}

\* the single call before getAccessToken runs
CallIdle ==
  /\ args = None
  /\ pc = "idle"
  /\ requests = <<>>
  /\ timer = "unset"
  /\ timerState = "none"
  /\ timerDelay = 0
  /\ aborts = 0
  /\ response = None
  /\ body = <<>>
  /\ chunks = 0
  /\ ended = FALSE
  /\ transportErr = None
  /\ promise = Pending
  /\ settleCalls = 0
  /\ parseCalls = 0
  /\ uncaught = FALSE
  /\ events = <<>>

\* ------------------------------------------------- two concurrent calls
\* getAccessToken called twice on one instance, the events of the two calls
\* interleaved.  Each run of the executor binds its own request, timer, body
\* and listeners (const request, let timer, let body inside the closures).

CallIds == {1, 2}

\* 'data' events delivered for one response of two concurrent calls
ConcMaxChunks == 1

ConcStatuses == {200, 400}

ConcChunks ==
  { <<LBrace, KeyAccessToken, StrT, RBrace>>, <<NullLit>>, <<Junk>> }

\* mutant of TimerSlot: timer is one variable shared by all the calls
TimerSlotShared(i) == 1

\* the binding of timer a call's closures refer to: let timer is declared
\* inside the executor, so every call has its own
TimerSlot(i) == i

UnsetCell == [tag |-> "unset", id |-> 0]

NullCell == [tag |-> "null", id |-> 0]

\* the value setTimeout returns to call i
HandleCell(i) == [tag |-> "handle", id |-> i]

\* the value of timer as the guards of call i read it
TimerOf(i) ==
  IF cells[TimerSlot(i)].tag = "null" THEN "null" ELSE "handle"

IdleCall ==
  [pc |-> "idle", request |-> None, queue |-> "none", aborts |-> 0,
   response |-> None, body |-> <<>>, chunks |-> 0, ended |-> FALSE,
   err |-> None, promise |-> Pending, events |-> <<>>]

\* verifyHmac has not been called
HmacIdle ==
  /\ reqType = "object"
  /\ reqQuery = <<>>
  /\ verdict = None
  /\ cmpSteps = None
  /\ thrown = None
  /\ ran = <<>>
  /\ before = None
  /\ edit = "none"
  /\ edits = 0

\* the constructor has returned the instance, and neither generateNonce nor
\* generateAuthUrl was called
ApiIdle ==
  /\ ctor = Some([threw |-> None])
  /\ lastCall = None
  /\ apiCalls = 0

CallbackIds == 1..MaxCallbacks

\* a session as express-session hands it to the first request
NewSession == [state |-> QUndefined, token |-> QUndefined]

\* a callback request that has not arrived
NoRequest == [phase |-> "none", query |-> <<>>, exchange |-> None, status |-> 0]

\* the example application has received no request
AppIdle ==
  /\ session = NewSession
  /\ reqs = [i \in CallbackIds |-> NoRequest]
  /\ started = 0

\* no mapping was made
CanonIdle ==
  /\ left = <<>>
  /\ right = <<>>
  /\ signing = None

\* no concurrent call is under way
ConcIdle ==
  /\ calls = [i \in CallIds |-> IdleCall]
  /\ cells = [i \in CallIds |-> UnsetCell]
  /\ actor = 0

Init ==
  /\ rev \in Revisions
  /\ options \in Options
  /\ this = Instance(rev, options)
  /\ CallIdle
  /\ AppIdle
  /\ CanonIdle
  /\ ConcIdle
  /\ HmacIdle
  /\ ApiIdle

\* getAccessToken(shop, code): the promise executor
GetAccessToken(shop, code) ==
  /\ pc = "idle"
  /\ pc' = "called"
  /\ args' = Some([shop |-> shop, code |-> code])
  /\ requests' = Append(requests, MakeRequest(rev, this, shop, code))
  /\ timer' = "handle"
  /\ timerState' = "armed"
  /\ timerDelay' = this.timeout
  /\ UNCHANGED <<rev, options, this, aborts, response, body, chunks, ended,
                 transportErr, promise, settleCalls, parseCalls, uncaught,
                 events>>
  /\ UNCHANGED <<appVars, canonVars, concVars, hmacVars, apiVars>>

\* a 'data' listener that puts the chunk in front of the body
AppendChunkInFront(text, chunk) == chunk \o text

\* the 'data' listener: body += chunk
AppendChunk(text, chunk) == text \o chunk

\* the request emits 'response': status is read and body starts empty
OnResponse(status) ==
  /\ pc = "called"
  /\ response = None
  /\ response' = Some(status)
  /\ body' = <<>>
  /\ UNCHANGED <<rev, options, this, pc, requests, timer, timerState, timerDelay,
                 aborts, chunks, ended, transportErr, promise, settleCalls,
                 parseCalls, uncaught, events>>
  /\ UNCHANGED <<appVars, canonVars, args, concVars, hmacVars, apiVars>>

\* the response emits 'data': body += chunk
OnData(chunk) ==
  /\ response # None
  /\ ~ended
  /\ chunks < MaxChunks
  /\ body' = AppendChunk(body, chunk)
  /\ chunks' = chunks + 1
  /\ UNCHANGED <<rev, options, this, pc, requests, timer, timerState, timerDelay,
                 aborts, response, ended, transportErr, promise, settleCalls,
                 parseCalls, uncaught, events>>
  /\ UNCHANGED <<appVars, canonVars, args, concVars, hmacVars, apiVars>>

\* mutant of OnEnd: the 'end' listener aborts the request once it has run
OnEndAborting ==
  /\ response # None
  /\ ~ended
  /\ ended' = TRUE
  /\ aborts' = IF timer = "null" THEN aborts ELSE aborts + 1
  /\ LET run == EndListener(rev, timer, response[1], body)
     IN /\ timerState' = IF run.clear THEN ClearTimeout(timerState)
                                      ELSE timerState
        /\ parseCalls' = IF run.parse THEN parseCalls + 1 ELSE parseCalls
        /\ uncaught' = (uncaught \/ run.threw)
        /\ Deliver("end", run)
  /\ UNCHANGED <<rev, options, this, pc, requests, timer, timerDelay,
                 response, body, chunks, transportErr>>
  /\ UNCHANGED <<appVars, canonVars, args, concVars, hmacVars, apiVars>>

\* the response emits 'end'
OnEnd ==
  /\ response # None
  /\ ~ended
  /\ ended' = TRUE
  /\ LET run == EndListener(rev, timer, response[1], body)
     IN /\ timerState' = IF run.clear THEN ClearTimeout(timerState)
                                      ELSE timerState
        /\ parseCalls' = IF run.parse THEN parseCalls + 1 ELSE parseCalls
        /\ uncaught' = (uncaught \/ run.threw)
        /\ Deliver("end", run)
  /\ UNCHANGED <<rev, options, this, pc, requests, timer, timerDelay, aborts,
                 response, body, chunks, transportErr>>
  /\ UNCHANGED <<appVars, canonVars, args, concVars, hmacVars, apiVars>>

\* mutant of OnError: the listener sends the request again before rejecting
OnErrorRetry(err) ==
  /\ pc = "called"
  /\ transportErr = None
  /\ transportErr' = Some(err)
  /\ requests' = IF timer = "null" THEN requests
                                   ELSE Append(requests, requests[1])
  /\ LET run == ErrorListener(timer, err)
     IN /\ timerState' = IF run.clear THEN ClearTimeout(timerState)
                                      ELSE timerState
        /\ Deliver("error", run)
  /\ UNCHANGED <<rev, options, this, pc, timer, timerDelay, aborts, response, body,
                 chunks, ended, parseCalls, uncaught>>
  /\ UNCHANGED <<appVars, canonVars, args, concVars, hmacVars, apiVars>>

\* the request emits 'error'
OnError(err) ==
  /\ pc = "called"
  /\ transportErr = None
  /\ transportErr' = Some(err)
  /\ LET run == ErrorListener(timer, err)
     IN /\ timerState' = IF run.clear THEN ClearTimeout(timerState)
                                      ELSE timerState
        /\ Deliver("error", run)
  /\ UNCHANGED <<rev, options, this, pc, requests, timer, timerDelay, aborts,
                 response, body, chunks, ended, parseCalls, uncaught>>
  /\ UNCHANGED <<appVars, canonVars, args, concVars, hmacVars, apiVars>>

\* the timer queue runs the timer callback
OnTimeout ==
  /\ timerState = "armed"
  /\ timerState' = "fired"
  /\ LET run == TimeoutCallback
     IN /\ aborts' = IF run.abort THEN aborts + 1 ELSE aborts
        /\ timer' = run.timer
        /\ Deliver("timeout", run)
  /\ UNCHANGED <<rev, options, this, pc, requests, timerDelay, response, body, chunks,
                 ended, transportErr, parseCalls, uncaught>>
  /\ UNCHANGED <<appVars, canonVars, args, concVars, hmacVars, apiVars>>

Next ==
  \/ \E shop \in Shops, code \in Codes : GetAccessToken(shop, code)
  \/ \E status \in Statuses : OnResponse(status)
  \/ \E chunk \in Chunks : OnData(chunk)
  \/ OnEnd
  \/ \E err \in TransportErrors : OnError(err)
  \/ OnTimeout

Spec == Init /\ [][Next]_vars

\* the timer queue runs the callback of a timer that stays armed
LiveSpec == Spec /\ WF_vars(OnTimeout)

\* ------------------------------------------- two concurrent calls: steps

ConcInit ==
  /\ rev \in Revisions
  /\ options = TestOptions
  /\ this = Instance(rev, options)
  /\ CallIdle
  /\ AppIdle
  /\ CanonIdle
  /\ ConcIdle
  /\ HmacIdle
  /\ ApiIdle

\* call c after one of its listeners ran
Delivered(c, ev, run) ==
  [c EXCEPT !.promise = IF run.settle = None THEN @
                                             ELSE Settle(@, run.settle[1]),
            !.events = Append(@, [ev |-> ev, settle |-> run.settle])]

\* the calls after a listener of call i ran: call i becomes c, and
\* clearTimeout(timer) acts on the timer the variable of call i refers to
AfterListener(i, c, run) ==
  [j \in CallIds |->
     LET cj == IF j = i THEN c ELSE calls[j]
     IN IF run.clear /\ cells[TimerSlot(i)].id = j
          THEN [cj EXCEPT !.queue = ClearTimeout(@)]
          ELSE cj]

\* call i runs the executor
ConcGetAccessToken(i, shop, code) ==
  /\ calls[i].pc = "idle"
  /\ calls' = [calls EXCEPT
                 ![i].pc = "called",
                 ![i].request = Some(MakeRequest(rev, this, shop, code)),
                 ![i].queue = "armed"]
  /\ cells' = [cells EXCEPT ![TimerSlot(i)] = HandleCell(i)]
  /\ actor' = i
  /\ UNCHANGED <<appVars, canonVars, rev, options, this, callVars, hmacVars, apiVars>>

\* the request of call i emits 'response'
ConcOnResponse(i, status) ==
  /\ calls[i].pc = "called"
  /\ calls[i].response = None
  /\ calls' = [calls EXCEPT ![i].response = Some(status), ![i].body = <<>>]
  /\ actor' = i
  /\ UNCHANGED <<appVars, canonVars, rev, options, this, callVars, cells, hmacVars, apiVars>>

\* the response of call i emits 'data'
ConcOnData(i, chunk) ==
  /\ calls[i].response # None
  /\ ~calls[i].ended
  /\ calls[i].chunks < ConcMaxChunks
  /\ calls' = [calls EXCEPT ![i].body = @ \o chunk, ![i].chunks = @ + 1]
  /\ actor' = i
  /\ UNCHANGED <<appVars, canonVars, rev, options, this, callVars, cells, hmacVars, apiVars>>

\* the response of call i emits 'end'
ConcOnEnd(i) ==
  /\ calls[i].response # None
  /\ ~calls[i].ended
  /\ LET run == EndListener(rev, TimerOf(i), calls[i].response[1],
                            calls[i].body)
         c == [Delivered(calls[i], "end", run) EXCEPT !.ended = TRUE]
     IN calls' = AfterListener(i, c, run)
  /\ actor' = i
  /\ UNCHANGED <<appVars, canonVars, rev, options, this, callVars, cells, hmacVars, apiVars>>

\* the request of call i emits 'error'
ConcOnError(i, err) ==
  /\ calls[i].pc = "called"
  /\ calls[i].err = None
  /\ LET run == ErrorListener(TimerOf(i), err)
         c == [Delivered(calls[i], "error", run) EXCEPT !.err = Some(err)]
     IN calls' = AfterListener(i, c, run)
  /\ actor' = i
  /\ UNCHANGED <<appVars, canonVars, rev, options, this, callVars, cells, hmacVars, apiVars>>

\* the timer queue runs the timer callback of call i
ConcOnTimeout(i) ==
  /\ calls[i].queue = "armed"
  /\ LET run == TimeoutCallback
         c == Delivered(calls[i], "timeout", run)
     IN /\ calls' = [calls EXCEPT
                       ![i] = [c EXCEPT
                                 !.queue = "fired",
                                 !.aborts = IF run.abort THEN @ + 1 ELSE @]]
        /\ cells' = [cells EXCEPT
                       ![TimerSlot(i)] = IF run.timer = "null" THEN NullCell
                                                               ELSE @]
  /\ actor' = i
  /\ UNCHANGED <<appVars, canonVars, rev, options, this, callVars, hmacVars, apiVars>>

ConcNext ==
  \/ \E i \in CallIds, shop \in Shops, code \in ConcCodes :
       ConcGetAccessToken(i, shop, code)
  \/ \E i \in CallIds, status \in ConcStatuses : ConcOnResponse(i, status)
  \/ \E i \in CallIds, chunk \in ConcChunks : ConcOnData(i, chunk)
  \/ \E i \in CallIds : ConcOnEnd(i)
  \/ \E i \in CallIds, err \in TransportErrors : ConcOnError(i, err)
  \/ \E i \in CallIds : ConcOnTimeout(i)

ConcSpec == ConcInit /\ [][ConcNext]_vars

\* -------------------------------------------------- verifyHmac: the steps
\* The application receives a callback query and hands it to verifyHmac; the
\* next query it receives is the last one with one thing changed.

HmacInit ==
  /\ rev \in Revisions
  /\ options = TestOptions
  /\ this = Instance(rev, options)
  /\ CallIdle
  /\ AppIdle
  /\ CanonIdle
  /\ ConcIdle
  /\ ApiIdle
  /\ reqType \in ArgTypes
  /\ reqQuery \in IF reqType = "object" THEN SignedQueries \cup {EmptyQuery}
                                        ELSE {EmptyQuery}
  /\ verdict = None
  /\ cmpSteps = None
  /\ thrown = None
  /\ ran = <<>>
  /\ before = None
  /\ edit = "none"
  /\ edits = 0

\* verifyHmac(query) is called and returns
VerifyHmac ==
  /\ verdict = None
  /\ thrown = None
  /\ \E call \in {verifyHmacCall(rev, this, reqType, reqQuery)} :
        /\ thrown' = call.threw
        /\ ran' = call.ran
        /\ reqQuery' = call.query
        /\ IF call.returned = None
             THEN UNCHANGED <<verdict, cmpSteps>>
             ELSE /\ verdict' = Some(call.returned[1].result)
                  /\ \E n \in call.returned[1].steps : cmpSteps' = Some(n)
  /\ UNCHANGED <<appVars, canonVars, rev, options, this, callVars, concVars, apiVars, reqType,
                 before, edit, edits>>

\* the next callback query: the one just verified, changed to query
NextQuery(kind, query) ==
  /\ verdict # None
  /\ edits < MaxEdits
  /\ query # reqQuery
  /\ before' = Some([query |-> reqQuery, verdict |-> verdict[1],
                     steps |-> cmpSteps[1]])
  /\ reqQuery' = query
  /\ edit' = kind
  /\ edits' = edits + 1
  /\ verdict' = None
  /\ cmpSteps' = None
  /\ ran' = <<>>
  /\ UNCHANGED <<appVars, canonVars, rev, options, this, callVars, concVars, apiVars, reqType,
                 thrown>>

\* a parameter gets another value
SetValue(key, value) ==
  /\ HasKey(reqQuery, key)
  /\ value \in ValuesFor(key)
  /\ NextQuery("value", SetEntry(reqQuery, key, value))

\* a parameter gets another key
RenameKey(old, new) ==
  /\ HasKey(reqQuery, old)
  /\ ~HasKey(reqQuery, new)
  /\ new \in RenamesOf(old)
  /\ NextQuery("key", RenameEntry(reqQuery, old, new))

\* the field signature is added or changed
SetSignature(sig) ==
  /\ sig \in Signatures
  /\ NextQuery("signature", SetEntry(reqQuery, "signature", QString(sig)))

\* the field signature is removed
RemoveSignature ==
  /\ HasKey(reqQuery, "signature")
  /\ NextQuery("signature", RemoveEntry(reqQuery, "signature"))

\* one character of a 64-character hmac is replaced by another character
FlipHmacChar(i, c) ==
  LET hmac == Lookup(reqQuery, "hmac")
  IN /\ hmac.t = "string"
     /\ Len(hmac.s) = 64
     /\ CharAt(hmac.s, i) # c
     /\ NextQuery("hmacChar",
                  SetEntry(reqQuery, "hmac", QString(ReplaceAt(hmac.s, i, c))))

\* hmac is removed, repeated, or gets another length
SetMalformedHmac ==
  LET hmac == Lookup(reqQuery, "hmac")
  IN /\ hmac.t = "string"
     /\ Len(hmac.s) = 64
     /\ \E value \in MalformedHmacs(hmac.s) :
          NextQuery("hmac",
                    IF value = QUndefined
                      THEN RemoveEntry(reqQuery, "hmac")
                      ELSE SetEntry(reqQuery, "hmac", value))

\* the same parameters arrive in the opposite order
ReorderKeys ==
  /\ Len(reqQuery) >= 2
  /\ NextQuery("order", Reverse(reqQuery))

HmacNext ==
  \/ VerifyHmac
  \/ \E key \in {"timestamp", "quuz", "t", "n"} :
       \E value \in ValuesFor(key) : SetValue(key, value)
  \/ \E old \in {"k=", "k"} : \E new \in RenamesOf(old) : RenameKey(old, new)
  \/ \E sig \in Signatures : SetSignature(sig)
  \/ RemoveSignature
  \/ \E i \in FlipPositions, c \in FlipChars : FlipHmacChar(i, c)
  \/ SetMalformedHmac
  \/ ReorderKeys

HmacSpec == HmacInit /\ [][HmacNext]_vars

\* ------------------- construction, generateNonce and generateAuthUrl: steps

\* calls of generateNonce and generateAuthUrl made on one instance
MaxApiCalls == 1

\* the value of the variable this while no instance exists
NoInstance == [constructed |-> FALSE]

\* the values handed for a required option: none, the empty string, a string
RequiredOptions(value) == {None, Some(""), Some(value)}

\* the arguments the constructor is called with
ConstructorArguments ==
  {NoOptions}
    \cup {[o EXCEPT !.sharedSecret = s, !.redirectUri = u, !.apiKey = k] :
            o \in OptionalOptions, s \in RequiredOptions("foo"),
            u \in RequiredOptions("bar"), k \in RequiredOptions("baz")}

\* the shops generateAuthUrl is called for: a shop name, a shop's domain, and
\* a text that is no host name
AuthShops == {"qux", "qux.myshopify.com", "qux/x"}

\* the scopes handed to generateAuthUrl
ScopesArguments ==
  {QUndefined, QString("read_themes,read_products"),
   QArray(<<QString("read_products"), QString("read_themes")>>)}

\* the nonces handed to generateAuthUrl
NonceArguments == {QUndefined, QString("corge"), QString("a&b=c d")}

\* the access modes handed to generateAuthUrl
AccessModeArguments == {QUndefined, QString("per-user")}

\* the buffer written down for a call that does not call crypto.randomBytes
NoBuffer == [i \in 1..NonceBytes |-> 0]

\* what crypto.randomBytes may hand to a call of generateAuthUrl
BuffersFor(nonce) == IF Truthy(nonce) THEN {NoBuffer} ELSE RandomBuffers

ApiInit ==
  /\ rev \in Revisions
  /\ options = NoOptions
  /\ this = NoInstance
  /\ CallIdle
  /\ AppIdle
  /\ CanonIdle
  /\ ConcIdle
  /\ HmacIdle
  /\ ctor = None
  /\ lastCall = None
  /\ apiCalls = 0

\* whether an instance exists
Constructed == ctor # None /\ ctor[1].threw = None

\* new ShopifyToken(opts)
Construct(opts) ==
  /\ ctor = None
  /\ LET made == Constructor(rev, opts)
     IN /\ ctor' = Some([threw |-> made.threw])
        /\ this' = IF made.instance = None THEN NoInstance
                                           ELSE made.instance[1]
  /\ options' = opts
  /\ UNCHANGED <<appVars, canonVars, rev, callVars, concVars, hmacVars, lastCall, apiCalls>>

\* the record of a call: the method, its arguments, the buffer
\* crypto.randomBytes returned if it was called, and the string returned
ApiCall(op, shop, scopes, nonce, accessMode, drawn, result) ==
  [op |-> op, shop |-> shop, scopes |-> scopes, nonce |-> nonce,
   accessMode |-> accessMode, drawn |-> drawn, result |-> result]

\* this.generateNonce()
GenerateNonce(bytes) ==
  /\ Constructed
  /\ apiCalls < MaxApiCalls
  /\ lastCall' = Some(ApiCall("generateNonce", "", QUndefined, QUndefined,
                              QUndefined, Some(bytes), generateNonce(bytes)))
  /\ apiCalls' = apiCalls + 1
  /\ UNCHANGED <<appVars, canonVars, rev, options, this, callVars, concVars, hmacVars, ctor>>

\* this.generateAuthUrl(shop, scopes, nonce, accessMode)
GenerateAuthUrl(shop, scopes, nonce, accessMode, bytes) ==
  /\ Constructed
  /\ apiCalls < MaxApiCalls
  /\ bytes \in BuffersFor(nonce)
  /\ \E run \in {generateAuthUrl(rev, this, shop, scopes, nonce, accessMode,
                                  bytes)} :
       lastCall' = Some(ApiCall("generateAuthUrl", shop, scopes, nonce,
                                accessMode,
                                IF run.drew THEN Some(bytes) ELSE None,
                                run.url))
  /\ this' = InstanceAfterAuthUrl(this, scopes, accessMode)
  /\ apiCalls' = apiCalls + 1
  /\ UNCHANGED <<appVars, canonVars, rev, options, callVars, concVars, hmacVars, ctor>>

ApiNext ==
  \/ \E opts \in ConstructorArguments : Construct(opts)
  \/ \E bytes \in RandomBuffers : GenerateNonce(bytes)
  \/ \E shop \in AuthShops, scopes \in ScopesArguments,
        nonce \in NonceArguments, accessMode \in AccessModeArguments :
       \E bytes \in BuffersFor(nonce) :
         GenerateAuthUrl(shop, scopes, nonce, accessMode, bytes)

ApiSpec == ApiInit /\ [][ApiNext]_vars

\* ------------------------------------ one instance and its four methods
\* The methods called on one instance, in any order: getAccessToken with the
\* events of its request, verifyHmac, generateNonce and generateAuthUrl.

\* the query handed to verifyHmac: the one of the test, as received
LifeQuery ==
  << Entry("hmac", QString(
       "3d9b9a7918ac20dfd03b6a0af54a58f0a47980145ae81a37f41597a1e34b528d")),
     Entry("state", QString("b77827e928ee8eee614b5808d3276c8a")),
     Entry("code", QString("4d732838ad8c22cd1d2dd96f8a403fb7")),
     Entry("shop", QString("qux.myshopify.com")),
     Entry("timestamp", QString("1451929074")) >>

LifeInit ==
  /\ rev \in Revisions
  /\ options \in {TestOptions,
                  [TestOptions EXCEPT !.scopes = Some(
                      QString("read_content,write_content")),
                                      !.accessMode = Some(QString("per-user"))]}
  /\ this = Instance(rev, options)
  /\ CallIdle
  /\ AppIdle
  /\ CanonIdle
  /\ ConcIdle
  /\ ApiIdle
  /\ reqType = "object"
  /\ reqQuery = LifeQuery
  /\ verdict = None
  /\ cmpSteps = None
  /\ thrown = None
  /\ ran = <<>>
  /\ before = None
  /\ edit = "none"
  /\ edits = 0

LifeNext ==
  \/ \E shop \in Shops : GetAccessToken(shop, Text("4d73"))
  \/ OnResponse(200)
  \/ OnEnd
  \/ OnTimeout
  \/ VerifyHmac
  \/ \E bytes \in RandomBuffers : GenerateNonce(bytes)
  \/ \E scopes \in ScopesArguments, accessMode \in AccessModeArguments :
       GenerateAuthUrl("qux", scopes, QString("corge"), accessMode, NoBuffer)

LifeSpec == LifeInit /\ [][LifeNext]_vars

\* ------------------------------------------------- the signing string
\* Two mappings of parameters to strings are made, one parameter at a time,
\* and the pairs of each are built, sorted and joined as verifyHmac does.
\* The parameters of the first mapping arrive in any order, those of the
\* second in the order of CanonKeyOrder.

CanonKeyOrder == <<"a", "a=", "c", "hmac">>

CanonKeys == {CanonKeyOrder[i] : i \in 1..Len(CanonKeyOrder)}

KeyIndex(key) == CHOOSE i \in 1..Len(CanonKeyOrder) : CanonKeyOrder[i] = key

\* the strings a parameter of the mappings may have
CanonValues(key) ==
  IF key = "hmac" THEN {QString("x")}
  ELSE {QString("b"), QString("=b"), QString("b&c=d"), QString("d")}

CanonInit ==
  /\ rev \in Revisions
  /\ options = TestOptions
  /\ this = Instance(rev, options)
  /\ CallIdle
  /\ AppIdle
  /\ ConcIdle
  /\ HmacIdle
  /\ ApiIdle
  /\ CanonIdle

\* the first mapping gets one more parameter
AddLeft(key, value) ==
  /\ signing = None
  /\ Len(left) < MaxParams
  /\ ~HasKey(left, key)
  /\ left' = Append(left, Entry(key, value))
  /\ UNCHANGED <<rev, options, this, callVars, concVars, hmacVars, apiVars,
                 appVars, right, signing>>

\* the second mapping gets one more parameter
AddRight(key, value) ==
  /\ signing = None
  /\ Len(right) < MaxParams
  /\ \A i \in 1..Len(right) : KeyIndex(right[i].key) < KeyIndex(key)
  /\ right' = Append(right, Entry(key, value))
  /\ UNCHANGED <<rev, options, this, callVars, concVars, hmacVars, apiVars,
                 appVars, left, signing>>

\* the signing strings of the two mappings are built
Canonicalise ==
  /\ signing = None
  /\ signing' = Some([left |-> Canonical(left), right |-> Canonical(right)])
  /\ UNCHANGED <<rev, options, this, callVars, concVars, hmacVars, apiVars,
                 appVars, left, right>>

CanonNext ==
  \/ \E key \in CanonKeys : \E value \in CanonValues(key) : AddLeft(key, value)
  \/ \E key \in CanonKeys : \E value \in CanonValues(key) : AddRight(key, value)
  \/ Canonicalise

CanonSpec == CanonInit /\ [][CanonNext]_vars

\* ------------------------------------------- the example application
\* The express application of the example directory (part_007 lines 1-68):
\* GET / stores a fresh nonce in the session and redirects to the
\* authorization URL, GET /callback checks the query and exchanges the code.
\* One session is followed; the requests on it are handled one at a time,
\* and the callbacks of a token exchange run later, between other requests.

\* the buffers crypto.randomBytes returns to the application: the one whose
\* hexadecimal text is the state of the signed query, and another
AppBuffers ==
  { <<183, 120, 39, 233, 40, 238, 142, 238, 97, 75, 88, 8, 211, 39, 108, 138>>,
    [i \in 1..NonceBytes |-> 255] }

\* the callback query Shopify redirects to, signed with the shared secret
SignedCallback == LifeQuery

\* the queries of the callback requests: the signed one, the same with
\* another timestamp under the old hmac, with state left out and hmac
\* computed for what is left, and with state given twice
CallbackQueries ==
  { SignedCallback,
    SetEntry(SignedCallback, "timestamp", QString("1451933938")),
    SetEntry(RemoveEntry(SignedCallback, "state"), "hmac", QString(
      "c153b348627bdc45e7d7e6d3d38499d668afc12c821bf0bce5bf0151551403df")),
    SetEntry(SignedCallback, "state",
             QArray(<<QString("b77827e928ee8eee614b5808d3276c8a"),
                      QString("b77827e928ee8eee614b5808d3276c8a")>>)) }

\* what the promise of getAccessToken is fulfilled with: a truthy value, or
\* a falsy one (a body without access_token, or the body null)
FulfilValues == {QString("f85632530bf277ec9ac6f649fc327f17"), QUndefined}

\* typeof value === 'string'
IsString(value) == value.t = "string"

\* the checks of the callback handler without the comparison with the session
CallbackChecksNoSession(r, inst, sess, query) ==
  LET state == Lookup(query, "state")
  IN ~(\/ ~IsString(state)
       \/ ~verifyHmac(r, inst, query).result)

\* the condition of the callback handler, negated: whether the request
\* passes the three checks; || evaluates its operands from left to right
\* and stops at the first that is true
CallbackChecks(r, inst, sess, query) ==
  LET state == Lookup(query, "state")
  IN ~(\/ ~IsString(state)
       \/ state # sess.state
       \/ ~verifyHmac(r, inst, query).result)

AppInit ==
  /\ rev \in Revisions
  /\ options = TestOptions
  /\ this = Instance(rev, options)
  /\ CallIdle
  /\ ConcIdle
  /\ HmacIdle
  /\ ApiIdle
  /\ CanonIdle
  /\ AppIdle

\* GET /: with a token, 'Token ready to be used'; without, a nonce is
\* generated, stored in session.state and sent in the redirect
Root(bytes) ==
  /\ IF Truthy(session.token)
       THEN UNCHANGED <<session, started>>
       ELSE /\ session' = [session EXCEPT
                             !.state = QString(generateNonce(bytes))]
            /\ started' = 0
  /\ UNCHANGED <<rev, options, this, callVars, concVars, hmacVars, apiVars,
                 canonVars, reqs>>

\* GET /callback: 400 unless the three checks pass, and then
\* getAccessToken(req.query.shop, req.query.code)
Callback(i, query) ==
  /\ reqs[i].phase = "none"
  /\ IF CallbackChecks(rev, this, session, query)
       THEN /\ reqs' = [reqs EXCEPT ![i] =
                          [phase |-> "exchanging", query |-> query,
                           exchange |-> Some([shop |-> Lookup(query, "shop"),
                                              code |-> Lookup(query, "code")]),
                           status |-> 0]]
            /\ started' = started + 1
       ELSE /\ reqs' = [reqs EXCEPT ![i] =
                          [phase |-> "answered", query |-> query,
                           exchange |-> None, status |-> 400]]
            /\ UNCHANGED started
  /\ UNCHANGED <<rev, options, this, callVars, concVars, hmacVars, apiVars,
                 canonVars, session>>

\* the promise of request i is fulfilled: the then callback stores the
\* token, clears session.state and redirects to /
ThenCallback(i, token) ==
  /\ reqs[i].phase = "exchanging"
  /\ session' = [state |-> QUndefined, token |-> token]
  /\ reqs' = [reqs EXCEPT ![i].phase = "answered", ![i].status = 302]
  /\ UNCHANGED <<rev, options, this, callVars, concVars, hmacVars, apiVars,
                 canonVars, started>>

\* the promise of request i is rejected: the catch callback answers 500
CatchCallback(i) ==
  /\ reqs[i].phase = "exchanging"
  /\ reqs' = [reqs EXCEPT ![i].phase = "answered", ![i].status = 500]
  /\ UNCHANGED <<rev, options, this, callVars, concVars, hmacVars, apiVars,
                 canonVars, session, started>>

AppNext ==
  \/ \E bytes \in AppBuffers : Root(bytes)
  \/ \E i \in CallbackIds, query \in CallbackQueries : Callback(i, query)
  \/ \E i \in CallbackIds, token \in FulfilValues : ThenCallback(i, token)
  \/ \E i \in CallbackIds : CatchCallback(i)

AppSpec == AppInit /\ [][AppNext]_vars

\* ------------------------------------------ the callback-style revision
\* getAccessToken(shop, code, fn) of part_004: the same request, timer and
\* listeners, with fn(error) where the promise version calls reject and
\* fn(undefined, body.access_token) where it calls resolve.  Every entry of
\* events with a settlement is one call of fn, and settleCalls counts them.

CallbackRevision == "part_004"

CallbackInit ==
  /\ rev = CallbackRevision
  /\ options \in Options
  /\ this = Instance(rev, options)
  /\ CallIdle
  /\ AppIdle
  /\ CanonIdle
  /\ ConcIdle
  /\ HmacIdle
  /\ ApiIdle

CallbackSpec == CallbackInit /\ [][Next]_vars

\* ------------------------------------------------------------------ claims

\* the completion event delivered first, if any
FirstEvent == events[1]

FirstIs(ev) == events # <<>> /\ FirstEvent.ev = ev

\* C1: the caller observes exactly one outcome, the one produced by the
\* first of the completion events (timer callback, 'end', 'error') to fire:
\* as soon as one of them has fired, the promise is settled with what that
\* event's listener passed to resolve or reject, whatever fires later.
C1_FirstEventDecides ==
  events # <<>> =>
    /\ FirstEvent.settle # None
    /\ promise = FirstEvent.settle[1]

\* C2: once the timer callback has run - before any 'response', with the
\* headers only, or with a body partly buffered - the request was aborted and
\* the promise is rejected with 'Request timed out', an error with neither a
\* statusCode nor a responseBody.
C2_TimeoutRejects ==
  timerState = "fired" =>
    /\ aborts = 1
    /\ promise.state = "rejected"
    /\ promise.reason[1].message = "Request timed out"
    /\ promise.reason[1].statusCode = None
    /\ promise.reason[1].responseBody = None

\* the timer fired while a body was partly buffered
C2_Witness ==
  /\ timerState = "fired"
  /\ response # None
  /\ body # <<>>
  /\ ~ended
  /\ aborts = 1

\* C3: once the timer callback has run (timer = null), an 'end' or 'error'
\* delivered afterwards calls neither resolve nor reject and leaves the
\* promise as it is.
C3_LateEventsIgnored ==
  [][timer = "null" => (promise' = promise /\ settleCalls' = settleCalls)]_vars

\* the timer fired first, then both 'end' and 'error' were delivered
C3_Witness ==
  /\ Len(events) = 3
  /\ FirstEvent.ev = "timeout"
  /\ ended
  /\ transportErr # None
  /\ promise = Reject(TimeoutError)
  /\ settleCalls = 1

\* C4: every call eventually reaches a terminal outcome, given that an armed
\* timer eventually fires: once the executor has run, the promise is
\* eventually fulfilled or rejected.
C4_EventuallySettled == (pc = "called") ~> (promise.state # "pending")

\* C5: a complete response with a status other than 200, 'end' being the
\* first completion event, rejects with 'Failed to get Shopify access token',
\* statusCode the status and responseBody the whole buffered body; the body
\* is never parsed.
C5_Non200Rejects ==
  (FirstIs("end") /\ response[1] # 200) =>
    /\ promise.state = "rejected"
    /\ promise.reason[1].message = "Failed to get Shopify access token"
    /\ promise.reason[1].statusCode = Some(response[1])
    /\ promise.reason[1].responseBody = Some(body)
    /\ parseCalls = 0

\* a 400 response whose body is valid JSON ended first
C5_Witness ==
  /\ FirstIs("end")
  /\ response[1] = 400
  /\ JSONParse(body).ok
  /\ promise.state = "rejected"

\* C6: a complete response with status 200 and a body that is not valid JSON,
\* 'end' being the first completion event, rejects with 'Failed to parse the
\* response body', statusCode 200 and responseBody the raw body as buffered.
C6_BadJsonRejects ==
  (FirstIs("end") /\ response[1] = 200 /\ ~JSONParse(body).ok) =>
    /\ promise.state = "rejected"
    /\ promise.reason[1].message = "Failed to parse the response body"
    /\ promise.reason[1].statusCode = Some(200)
    /\ promise.reason[1].responseBody = Some(body)

\* a 200 response ended first with the body null< , a JSON text followed by
\* something else
C6_Witness ==
  /\ FirstIs("end")
  /\ response[1] = 200
  /\ body = <<NullLit, Junk>>
  /\ promise.state = "rejected"

\* C7: a complete response with status 200 and a body that parses as JSON,
\* 'end' being the first completion event, fulfils the promise with the whole
\* parsed payload, not with one field of it.
C7_FulfilsWholePayload ==
  (FirstIs("end") /\ response[1] = 200 /\ JSONParse(body).ok) =>
    promise = Resolve(JSONParse(body).val)

\* C8: when 'error' is the first completion event, the timer is cancelled and
\* the promise is rejected with the very error the transport emitted.
C8_TransportErrorRejects ==
  FirstIs("error") =>
    /\ timerState = "cleared"
    /\ promise = Reject(transportErr[1])

\* the request failed while a body was being buffered
C8_Witness ==
  /\ FirstIs("error")
  /\ response # None
  /\ body # <<>>
  /\ promise.state = "rejected"

\* C9: in every terminal state the timer is no longer armed (it fired or was
\* cleared), and the timer callback runs only as the first completion event,
\* never after the call has settled by another path.
C9_NoTimerLeft ==
  /\ promise.state # "pending" => timerState \in {"fired", "cleared"}
  /\ \A i \in 1..Len(events) : events[i].ev = "timeout" => i = 1

\* a call that succeeded, with its timer cleared and a later 'error' ignored
C9_Witness ==
  /\ promise.state = "fulfilled"
  /\ timerState = "cleared"
  /\ Len(events) = 2

\* C10: a call issues exactly one request over its whole lifetime, whatever
\* fails, and a failure reported to the caller is never replaced by another.
C10_OneRequestNoRetry ==
  /\ [](pc = "called" => Len(requests) = 1)
  /\ [][promise.state = "rejected" => promise' = promise]_vars

\* a rejected call after which further events were delivered
C10_Witness ==
  /\ promise.state = "rejected"
  /\ Len(events) = 2
  /\ Len(requests) = 1

\* C11: two calls running concurrently on one instance are independent: a
\* step of one call (its timeout, its error, its response) leaves the other
\* call's state and timer variable as they are; a call's timer is cancelled
\* only by that call's own 'end' or 'error', and a call's outcome is one its
\* own events produced.
C11_CallsIndependent ==
  /\ [][\A j \in CallIds :
          j # actor' => /\ calls[j]' = calls[j]
                        /\ cells[TimerSlot(j)]' = cells[TimerSlot(j)]]_vars
  /\ [](\A j \in CallIds :
          /\ calls[j].queue = "cleared" =>
               /\ calls[j].events # <<>>
               /\ calls[j].events[1].ev \in {"end", "error"}
          /\ calls[j].promise.state # "pending" =>
               \E k \in 1..Len(calls[j].events) :
                 calls[j].events[k].settle = Some(calls[j].promise))

\* call 1 has timed out while call 2, started before, is still in flight
\* with its own timer armed; call 2 has its own request
C11_Witness ==
  /\ calls[1].promise = Reject(TimeoutError)
  /\ calls[2].pc = "called"
  /\ calls[2].response # None
  /\ calls[2].promise.state = "pending"
  /\ calls[2].queue = "armed"
  /\ calls[1].request # calls[2].request

\* the text of a JSON string literal starting at toks[i], unescaped, and
\* the position after its closing quote; ok is FALSE if there is none
RECURSIVE ScanString(_, _, _)
ScanString(toks, j, acc) ==
  IF j > Len(toks) THEN [ok |-> FALSE, text |-> <<>>, next |-> j]
  ELSE IF toks[j] = DQuote THEN [ok |-> TRUE, text |-> acc, next |-> j + 1]
  ELSE IF toks[j] = Backslash
    THEN IF j + 1 > Len(toks)
           THEN [ok |-> FALSE, text |-> <<>>, next |-> j]
           ELSE ScanString(toks, j + 2, Append(acc, toks[j + 1]))
    ELSE ScanString(toks, j + 1, Append(acc, toks[j]))

ReadString(toks, i) ==
  IF i <= Len(toks) /\ toks[i] = DQuote
    THEN ScanString(toks, i + 1, <<>>)
    ELSE [ok |-> FALSE, text |-> <<>>, next |-> i]

\* the members "key":"value" read from position i up to the closing brace,
\* as a sequence of pairs; <<"invalid">> if the text is not such an object
RECURSIVE ReadMembers(_, _, _)
ReadMembers(toks, i, acc) ==
  LET k == ReadString(toks, i)
      v == ReadString(toks, k.next + 1)
  IN IF ~k.ok \/ k.next > Len(toks) \/ toks[k.next] # Colon \/ ~v.ok
         \/ v.next > Len(toks)
       THEN <<"invalid">>
       ELSE IF toks[v.next] = RBrace /\ v.next = Len(toks)
              THEN Append(acc, <<k.text, v.text>>)
              ELSE IF toks[v.next] = Comma
                     THEN ReadMembers(toks, v.next + 1,
                                      Append(acc, <<k.text, v.text>>))
                     ELSE <<"invalid">>

\* the request body as the server reads it: the members of the JSON object
DecodeBody(toks) ==
  IF toks # <<>> /\ toks[1] = LBrace THEN ReadMembers(toks, 2, <<>>)
                                     ELSE <<"invalid">>

\* C12: the request of getAccessToken(shop, code) is a POST to
\* /admin/oauth/access_token on host shop with Content-Type and Accept
\* application/json, Content-Length the UTF-8 byte length of the body, a JSON
\* body holding client_secret, client_id and code, and it is issued through
\* the agent supplied at construction when one was supplied.
C12_RequestAsSpecified ==
  pc = "called" =>
    /\ Len(requests) = 1
    /\ LET req == requests[1]
       IN /\ req.method = "POST"
          /\ req.path = "/admin/oauth/access_token"
          /\ req.hostname = args[1].shop
          /\ req.contentType = "application/json"
          /\ req.accept = "application/json"
          /\ req.contentLength = ByteLength(req.data)
          /\ DecodeBody(req.data) =
               << <<Text("client_secret"), Text(this.sharedSecret)>>,
                  <<Text("client_id"), Text(this.apiKey)>>,
                  <<Text("code"), args[1].code>> >>
          /\ options.agent # None => req.agent = options.agent

\* the request without the agent clause
C12_RequestFields ==
  pc = "called" =>
    /\ Len(requests) = 1
    /\ LET req == requests[1]
       IN /\ req.method = "POST"
          /\ req.path = "/admin/oauth/access_token"
          /\ req.hostname = args[1].shop
          /\ req.contentType = "application/json"
          /\ req.accept = "application/json"
          /\ req.contentLength = ByteLength(req.data)
          /\ req.contentLength = 51 + ByteLength(Escape(args[1].code))
          /\ DecodeBody(req.data) =
               << <<Text("client_secret"), Text(this.sharedSecret)>>,
                  <<Text("client_id"), Text(this.apiKey)>>,
                  <<Text("code"), args[1].code>> >>

\* ---- verifyHmac

\* what verifyHmac computes the digest of, and the digest, for a query
SigningString(query) == Canonical(query)

ExpectedHex(query) == HmacSha256Hex(this.sharedSecret, SigningString(query))

\* the query carries the signature the platform computes for its parameters
CorrectlySigned(query) == Lookup(query, "hmac") = QString(ExpectedHex(query))

\* the value is a string of 64 hexadecimal digits
WellFormedHmac(value) ==
  /\ value.t = "string"
  /\ Len(value.s) = 64
  /\ \A i \in 1..64 : HexValue(CharAt(value.s, i)) >= 0

\* the value is a string of 64 hexadecimal digits that spell the digest,
\* capital or small
SpellsDigest(value, query) ==
  /\ WellFormedHmac(value)
  /\ \A i \in 1..64 :
       HexValue(CharAt(value.s, i)) = HexValue(CharAt(ExpectedHex(query), i))

\* a parameter value as the query string carries it: the strings of a
\* repeated key, or one string
WireValue(value) ==
  IF value.t = "array"
    THEN <<"repeated", [i \in 1..Len(value.a) |-> StringOf(value.a[i])]>>
    ELSE <<"single", StringOf(value)>>

\* the parameters other than hmac and signature, as a set
WireParams(query) ==
  { <<query[i].key, WireValue(query[i].value)>> :
      i \in {j \in 1..Len(query) : query[j].key \notin {"hmac", "signature"}} }

Verified == verdict # None

\* C13: verifyHmac returns true if and only if hmac is the hexadecimal
\* HMAC-SHA256 of the signing string of the other parameters: a correctly
\* signed query verifies as true, a query that verifies as true carries the
\* digest, and a correctly signed query with the key or value of a parameter
\* changed (hmac kept) verifies as false.
C13_TrueIffSigned ==
  Verified =>
    /\ CorrectlySigned(reqQuery) => verdict[1]
    /\ verdict[1] => SpellsDigest(Lookup(reqQuery, "hmac"), reqQuery)
    /\ ( /\ edit \in {"value", "key"}
         /\ CorrectlySigned(before[1].query)
         /\ WireParams(reqQuery) # WireParams(before[1].query) )
       => ~verdict[1]

\* C14: verifyHmac returns false whenever hmac is absent, is not a string or
\* is not 64 hexadecimal characters, the empty query included, whatever the
\* other parameters are.
C14_MalformedHmacRejected ==
  (Verified /\ ~WellFormedHmac(Lookup(reqQuery, "hmac"))) => ~verdict[1]

\* C15: when a query verifies as true, the query with one character of hmac
\* replaced by a different character verifies as false.
C15_FlippedCharRejected ==
  (Verified /\ edit = "hmacChar" /\ before[1].verdict) => ~verdict[1]

\* C16: verifyHmac returns true only when the decoded hmac has the length of
\* the digest and equals it byte for byte; a shorter decoded hmac never
\* compares equal.
C16_EqualLengthBytes ==
  (Verified /\ verdict[1]) =>
    LET decoded == BufferFromHex(Lookup(reqQuery, "hmac").s)
        digest == HmacSha256(this.sharedSecret, SigningString(reqQuery))
    IN /\ Len(decoded) = Len(digest)
       /\ \A i \in 1..Len(digest) : decoded[i] = digest[i]

\* C17: for two candidate hmac values of valid format the digest comparison
\* examines the same number of positions, wherever the first mismatch is.
C17_StepsIndependentOfMatch ==
  ( /\ Verified
    /\ edit = "hmacChar"
    /\ WellFormedHmac(Lookup(reqQuery, "hmac"))
    /\ WellFormedHmac(Lookup(before[1].query, "hmac")) )
  => cmpSteps[1] = before[1].steps

\* C18: hmac and signature take no part in the signing string: adding,
\* removing or changing signature leaves the result as it was, and a change
\* of hmac leaves the signing string as it was.
C18_ReservedKeysExcluded ==
  /\ (edit \in {"signature", "hmac", "hmacChar"}) =>
       SigningString(reqQuery) = SigningString(before[1].query)
  /\ (Verified /\ edit = "signature") => verdict[1] = before[1].verdict

C18_Witness ==
  /\ Verified
  /\ edit = "signature"
  /\ HasKey(reqQuery, "signature")
  /\ verdict[1]
  /\ Lookup(before[1].query, "signature") # Lookup(reqQuery, "signature")

\* the query with its keys inserted in the order perm
Permuted(query, perm) == [i \in 1..Len(query) |-> query[perm[i]]]

C20_ArrayAndScalarForm ==
  LET pairs == Pairs(reqQuery)
      Has(pair) == \E i \in 1..Len(pairs) : pairs[i] = pair
      quuz == Lookup(reqQuery, "quuz")
  IN /\ quuz \in {QArray(<<QNumber(1), QNumber(2)>>),
                  QArray(<<QString("1"), QString("2")>>)}
          => Has("quuz=[\"1\", \"2\"]")
     /\ quuz = QArray(<<QNumber(2), QNumber(1)>>)
          => Has("quuz=[\"2\", \"1\"]")
     /\ Lookup(reqQuery, "n") = QNumber(7) => Has("n=7")
     /\ Lookup(reqQuery, "t") = QNumber(1) => Has("t=1")
     /\ (Verified /\ quuz.t = "array" /\ CorrectlySigned(reqQuery))
          => verdict[1]

C20_Witness ==
  /\ Verified
  /\ verdict[1]
  /\ Lookup(reqQuery, "quuz") = QArray(<<QNumber(1), QNumber(2)>>)
  /\ Lookup(reqQuery, "hmac") = QString(
       "ffe89c5d47dd26297d47b68e6ad14cf4ee6f11a72b3da7c7a0974d0c3959579a")
  /\ before = None

\* a step that is a call of verifyHmac: it returns or throws
VerifyHmacStep ==
  /\ verdict = None
  /\ thrown = None
  /\ verdict' # None \/ thrown' # None

\* C21: verifyHmac never raises: whatever its argument is (null, undefined,
\* a mapping without hmac, a mapping with a value that cannot be converted
\* to a string), the call ends with a returned boolean, which is false when
\* the argument is not a correctly signed mapping, and never with an
\* exception.
C21_NeverRaises ==
  /\ thrown = None
  /\ (Verified /\ ~HasKey(reqQuery, "hmac")) => verdict[1] = FALSE

\* C22: verifyHmac leaves its argument and the instance unchanged: across a
\* call, whether it returns true, returns false or throws, the query has the
\* same keys in the same order with the same values, array values with the
\* same elements in the same order, and the instance has the same fields.
C22_ArgumentUntouched ==
  [][VerifyHmacStep =>
       /\ reqType' = reqType
       /\ reqQuery' = reqQuery
       /\ this' = this]_vars

\* a query with hmac, signature and an array value was verified and accepted
C22_Witness ==
  /\ Verified
  /\ verdict[1]
  /\ HasKey(reqQuery, "hmac")
  /\ \E i \in 1..Len(reqQuery) : reqQuery[i].value.t = "array"

\* whether a required option is there and not empty
Present(field) == field # None /\ field[1] # ""

\* whether the argument of the constructor has the three required options
RequiredPresent(opts) ==
  /\ opts.given
  /\ Present(opts.sharedSecret)
  /\ Present(opts.redirectUri)
  /\ Present(opts.apiKey)

\* C23: construction fails with the error 'Missing or invalid options', and
\* makes no instance, whenever the options object is absent or one of apiKey,
\* sharedSecret, redirectUri is missing or empty, whatever the optional
\* options are; it succeeds and makes an instance when all three are there.
C23_ConstructionGuard ==
  ctor # None =>
    IF RequiredPresent(options)
      THEN ctor[1].threw = None /\ this # NoInstance
      ELSE /\ ctor[1].threw = Some("Missing or invalid options")
           /\ this = NoInstance

\* the constructor threw for an empty sharedSecret handed with the other two
\* required options and with scopes, and elsewhere it returned an instance
C23_Witness ==
  /\ ctor # None
  /\ ctor[1].threw # None
  /\ options.sharedSecret = Some("")
  /\ options.redirectUri = Some("bar")
  /\ options.apiKey = Some("baz")
  /\ options.scopes # None

\* instance.name, which is undefined when the instance has no such field
Field(inst, name) == IF name \in DOMAIN inst THEN inst[name] ELSE QUndefined

\* C24: a constructed instance has scopes 'read_content', timeout 60000 and
\* accessMode '' when the option is omitted and the supplied value when it
\* is given, and getAccessToken arms its timer with the instance's timeout.
C24_Defaults ==
  /\ this.scopes = IF options.scopes = None THEN QString("read_content")
                                            ELSE options.scopes[1]
  /\ this.timeout = IF options.timeout = None THEN 60000
                                              ELSE options.timeout[1]
  /\ Field(this, "accessMode")
       = IF options.accessMode = None THEN QString("")
                                      ELSE options.accessMode[1]
  /\ pc = "called" => timerDelay = this.timeout

\* whether the last call was one of generateAuthUrl
AuthUrlCalled == lastCall # None /\ lastCall[1].op = "generateAuthUrl"

\* the buffer crypto.randomBytes handed to the last call
DrawnBytes == IF lastCall[1].drawn = None THEN NoBuffer
                                          ELSE lastCall[1].drawn[1]

\* the URL generateAuthUrl returns for shop, with the other arguments and the
\* random bytes of the last call
UrlFor(shop) ==
  generateAuthUrl(rev, this, shop, lastCall[1].scopes, lastCall[1].nonce,
                  lastCall[1].accessMode, DrawnBytes).url

StartsWith(str, prefix) ==
  Len(str) >= Len(prefix) /\ SubSeq(str, 1, Len(prefix)) = prefix

\* C25: generateAuthUrl does not double-suffix the shop: for a shop s, the
\* calls for s.myshopify.com and for s return, with the same nonce, the same
\* URL, whose host is s.myshopify.com; a shop that does not end with the
\* suffix has it appended once.
C25_NoDoubleSuffix ==
  AuthUrlCalled =>
    LET shop == lastCall[1].shop
        bare == IF EndsWith(shop, ".myshopify.com")
                  THEN SubSeq(shop, 1, Len(shop) - Len(".myshopify.com"))
                  ELSE shop
    IN /\ lastCall[1].result = UrlFor(bare)
       /\ StartsWith(lastCall[1].result,
                     "https://" \o bare \o ".myshopify.com/admin/")

\* the parameters of the URL the last call returned
ReturnedQuery == UrlParse(lastCall[1].result).query

\* the text of a scopes value: a string, or the elements of an array with
\* commas between them
CommaJoined(scopes) ==
  IF scopes.t = "array"
    THEN JoinStrings([i \in 1..Len(scopes.a) |-> scopes.a[i].s], ",")
    ELSE scopes.s

IsHexText(str, n) ==
  /\ Len(str) = n
  /\ \A i \in 1..Len(str) : IndexIn(HexDigits, CharAt(str, i)) > 0

C28_AccessModeResolution ==
  AuthUrlCalled =>
    LET mode == IF lastCall[1].accessMode.t = "undefined"
                  THEN Field(this, "accessMode")
                  ELSE lastCall[1].accessMode
    IN ValuesOf(ReturnedQuery, "grant_options[]")
         = IF mode.t = "string" /\ mode.s # "" THEN <<mode.s>> ELSE <<>>

\* whether a URL is one of the authorization endpoint with the parameters of
\* the instance
UrlShape(uri) ==
  LET parsed == UrlParse(uri)
  IN /\ parsed.protocol = "https:"
     /\ parsed.pathname = "/admin/oauth/authorize"
     /\ Len(ValuesOf(parsed.query, "scope")) = 1
     /\ Len(ValuesOf(parsed.query, "state")) = 1
     /\ ValuesOf(parsed.query, "redirect_uri") = <<this.redirectUri>>
     /\ ValuesOf(parsed.query, "client_id") = <<this.apiKey>>

\* a step that is a call of generateAuthUrl
GenerateAuthUrlStep ==
  /\ apiCalls' = apiCalls + 1
  /\ lastCall'[1].op = "generateAuthUrl"

IsHostText(shop) ==
  ~Includes(shop, "/") /\ ~Includes(shop, "?") /\ ~Includes(shop, "#")

C30_NonceFromRandomSource ==
  (lastCall # None /\ lastCall[1].op = "generateNonce") =>
    /\ IsHexText(lastCall[1].result, 32)
    /\ lastCall[1].drawn # None
    /\ BufferFromHex(lastCall[1].result) = lastCall[1].drawn[1]

\* generateNonce returned the text of a buffer of sixteen different bytes
C30_Witness ==
  /\ lastCall # None
  /\ lastCall[1].op = "generateNonce"
  /\ lastCall[1].result = "254a6f94b9de03284d7297bce1062b50"

\* str with % written as %25 and & as %26, and = as %3D when equals is set,
\* every other character as it is
Escaped(str, equals) ==
  Concat([i \in 1..Len(str) |->
            LET c == CharAt(str, i)
            IN IF c = "%" THEN "%25"
               ELSE IF c = "&" THEN "%26"
               ELSE IF c = "=" /\ equals THEN "%3D"
               ELSE c],
         1, Len(str))

\* the parameters of the query that are neither hmac nor signature
Signed(query) == SelectSeq(query, LAMBDA e : e.key \notin {"hmac", "signature"})

\* C31: in the canonical signing string each pair is the key with every %, &
\* and = replaced by %25, %26 and %3D, then =, then the value with every %
\* and & replaced and every = kept; no other character is changed. The
\* pairs of the signing string are exactly these texts.
C31_PairEncoding ==
  LET kept == Signed(reqQuery)
      pairs == Pairs(reqQuery)
  IN /\ Len(pairs) = Len(kept)
     /\ {pairs[i] : i \in 1..Len(pairs)}
          = {Escaped(kept[i].key, TRUE) \o "="
               \o Escaped(ValueString(kept[i].value), FALSE) :
             i \in 1..Len(kept)}

\* a query with the key k= and the value v&%= was verified and accepted
C31_Witness ==
  /\ Verified
  /\ verdict[1]
  /\ Lookup(reqQuery, "k=") = QString("v&%=")
  /\ \E i \in 1..Len(Pairs(reqQuery)) : Pairs(reqQuery)[i] = "k%3D=v%26%25="

\* whether the call of verifyHmac has ended
VerifyHmacEnded == verdict # None \/ thrown # None

\* whether hmac is absent, not a string or not 64 characters long
HmacMisformatted(query) ==
  \/ ~HasKey(query, "hmac")
  \/ Lookup(query, "hmac").t # "string"
  \/ Len(Lookup(query, "hmac").s) # 64

\* whether the call did the step named
Ran(step) == \E i \in 1..Len(ran) : ran[i] = step

\* C32: the format check of hmac comes first: for a query whose hmac is
\* absent, not a string or not 64 characters long, verifyHmac returns false
\* without having read, converted or encoded any other parameter and
\* without having computed an HMAC.
C32_FormatCheckFirst ==
  (VerifyHmacEnded /\ reqType = "object" /\ HmacMisformatted(reqQuery)) =>
    /\ verdict = Some(FALSE)
    /\ ~Ran("pairs")
    /\ ~Ran("digest")

\* a step in which the response emits 'data'
DataStep == chunks' = chunks + 1

\* a step in which the response emits 'end'
EndStep == ~ended /\ ended'

\* what the listener of the last event passed to resolve or reject
LastSettle == events[Len(events)].settle

\* whether a proper prefix of the text is valid JSON
PrefixIsJson(text) ==
  \E k \in 1..(Len(text) - 1) : JSONParse(SubSeq(text, 1, k)).ok

\* C33: the response is classified only at 'end' and on the whole body: the
\* body starts empty, every 'data' event appends its chunk to it and neither
\* settles the promise nor parses anything, and at 'end', unless the call
\* has timed out, a status other than 200 rejects with the whole body as
\* responseBody, a 200 body that is not JSON as a whole rejects with the
\* parse error carrying the whole body however much of its beginning is
\* JSON, and a 200 body is parsed once.
C33_ClassifiedAtEnd ==
  [][/\ (response = None /\ response' # None) => body' = <<>>
     /\ DataStep =>
          /\ \E chunk \in Chunks : body' = body \o chunk
          /\ events' = events
          /\ promise' = promise
          /\ parseCalls' = parseCalls
     /\ (EndStep /\ timer # "null") =>
          /\ body' = body
          /\ Len(events') = Len(events) + 1
          /\ response[1] # 200 =>
               /\ LastSettle' = Some(Reject(StatusError(response[1], body)))
               /\ parseCalls' = parseCalls
          /\ response[1] = 200 => parseCalls' = parseCalls + 1
          /\ (response[1] = 200 /\ ~JSONParse(body).ok) =>
               LastSettle' = Some(Reject(BodyParseError(200, body)))
    ]_vars

\* a 200 response whose body came in several chunks, starts with valid JSON
\* and is not JSON as a whole was rejected with the parse error
C33_Witness ==
  /\ FirstIs("end")
  /\ response = Some(200)
  /\ chunks >= 2
  /\ PrefixIsJson(body)
  /\ ~JSONParse(body).ok
  /\ promise = Reject(BodyParseError(200, body))

\* the fields of the instance that the options of the constructor set
ConfiguredFields ==
  {"apiKey", "sharedSecret", "redirectUri", "scopes", "timeout", "accessMode"}

\* C34: after construction no call of generateNonce, generateAuthUrl,
\* verifyHmac or getAccessToken, and no event of a request, changes the
\* instance's apiKey, sharedSecret, redirectUri, scopes, timeout or
\* accessMode; scopes or an access mode handed to generateAuthUrl are not
\* stored, so a later call without them gets the URL the instance as
\* constructed gives.
C34_InstanceImmutable ==
  [][/\ \A f \in ConfiguredFields : Field(this', f) = Field(this, f)
     /\ generateAuthUrl(rev, this', "qux", QUndefined, QString("corge"),
                        QUndefined, NoBuffer).url
          = generateAuthUrl(rev, Instance(rev, options), "qux", QUndefined,
                            QString("corge"), QUndefined, NoBuffer).url
    ]_vars

\* generateAuthUrl was called with scopes of its own, verifyHmac has
\* returned and the promise of getAccessToken is settled, and the instance
\* is as the constructor left it
C34_Witness ==
  /\ AuthUrlCalled
  /\ lastCall[1].scopes.t = "array"
  /\ lastCall[1].accessMode = QString("per-user")
  /\ verdict = Some(TRUE)
  /\ promise.state # "pending"
  /\ this = Instance(rev, options)

\* the calls of fn made so far by the callback-style getAccessToken
FnCalls == settleCalls

\* C35: the callback-style getAccessToken calls fn at most once whatever the
\* order of timeout, 'end' and 'error' (no second call by an 'error' after an
\* 'end' that called fn, nor by an 'end' after an 'error'), and exactly once
\* when the timer has fired or was cleared.
C35_FnCalledOnce ==
  /\ FnCalls <= 1
  /\ (timerState \in {"fired", "cleared"} => FnCalls = 1)

\* C36: request.abort() is called exactly when the call ends as TimedOut, and
\* then once: the count of aborts is 1 when the promise is rejected with the
\* timeout error and 0 otherwise (fulfilled, rejected for the status, the
\* body or the transport, or pending), and the one step that calls it starts
\* from an unsettled call.
C36_AbortIffTimedOut ==
  [][/\ aborts' \in {0, 1}
     /\ (aborts' = 1) <=> (promise' = Reject(TimeoutError))
     /\ (aborts' # aborts =>
           /\ promise.state = "pending"
           /\ settleCalls = 0
           /\ FirstIs("timeout")')
    ]_vars

\* the timer fired and aborted the request once, and the 'end' and 'error'
\* delivered to the aborted request aborted nothing more
C36_Witness ==
  /\ aborts = 1
  /\ promise = Reject(TimeoutError)
  /\ Len(events) = 3
  /\ events[2].ev = "error"
  /\ events[3].ev = "end"

\* the parameters of a mapping that take part in the signing string
ParametersOf(query) ==
  {<<Signed(query)[i].key, Signed(query)[i].value.s>> :
     i \in 1..Len(Signed(query))}

\* C37: two mappings of parameters to strings that differ in a key or a
\* value, hmac and signature apart, have different signing strings, also
\* when keys or values contain the characters percent, ampersand or equals.
C37_CanonicalInjective ==
  (signing # None /\ ParametersOf(left) # ParametersOf(right))
    => signing[1].left # signing[1].right

\* one mapping has the value b&c=d for a, the other the parameters a and c
\* this value would read as if the ampersand were not escaped
C37_Witness ==
  /\ signing # None
  /\ ParametersOf(left) = {<<"a", "b&c=d">>}
  /\ ParametersOf(right) = {<<"a", "b">>, <<"c", "d">>}
  /\ signing[1].left = "a=b%26c=d"
  /\ signing[1].right = "a=b&c=d"

\* request i arrives in this step
Arrives(i) == reqs[i].phase = "none" /\ reqs'[i].phase # "none"

\* the callback handler of request i calls getAccessToken in this step
StartsExchange(i) == reqs[i].phase # "exchanging" /\ reqs'[i].phase = "exchanging"

\* C38: the callback handler calls getAccessToken only in the request whose
\* state parameter is a string, equals the nonce in the session and whose
\* query verifyHmac accepts; a callback that arrives when the session holds
\* no nonce, or without a state parameter, is answered 400 and starts no
\* exchange.
C38_ExchangeAfterChecks ==
  [][\A i \in CallbackIds :
       /\ StartsExchange(i) =>
            /\ Arrives(i)
            /\ IsString(Lookup(reqs'[i].query, "state"))
            /\ IsString(session.state)
            /\ Lookup(reqs'[i].query, "state").s = session.state.s
            /\ verifyHmac(rev, this, reqs'[i].query).result
            /\ reqs'[i].exchange =
                 Some([shop |-> Lookup(reqs'[i].query, "shop"),
                       code |-> Lookup(reqs'[i].query, "code")])
       /\ (/\ Arrives(i)
           /\ \/ session.state = QUndefined
              \/ ~HasKey(reqs'[i].query, "state"))
            => /\ reqs'[i].phase = "answered"
               /\ reqs'[i].status = 400
               /\ reqs'[i].exchange = None
               /\ started' = started
    ]_vars

\* the signed callback was answered 400 on the session without a nonce and
\* has started an exchange once the session held its nonce
C38_Witness ==
  \E i, j \in CallbackIds :
    /\ reqs[i].query = SignedCallback
    /\ reqs[i].status = 400
    /\ reqs[j].query = SignedCallback
    /\ reqs[j].phase = "exchanging"
    /\ session.state = Lookup(SignedCallback, "state")

\* C39: a nonce is used once: at most one call of getAccessToken is made for
\* the nonce the session holds, whatever the order of the callback requests
\* and of the callbacks of their promises; a fulfilled exchange clears
\* session.state, and the same callback arriving after it is answered 400.
C39_NonceSingleUse ==
  [][/\ started' <= 1
     /\ \A i \in CallbackIds :
          /\ (reqs[i].phase = "exchanging" /\ reqs'[i].status = 302)
               => session'.state = QUndefined
          /\ (/\ Arrives(i)
              /\ session.state = QUndefined
              /\ \E j \in CallbackIds : /\ reqs[j].status = 302
                                         /\ reqs[j].query = reqs'[i].query)
               => reqs'[i].status = 400
    ]_vars

====
